---- MODULE Spec2Model ----
(***************************************************************************)
(* Session orchestrator (Orchestrator.handleTask / runAgentLoop / message  *)
(* handlers) and the per-objective agent loop (AgentController.runLoop /   *)
(* decide) of the agentic browser.  One session is modelled.  Every action *)
(* is the code that runs between two suspension points (awaits): the       *)
(* JavaScript between two awaits is atomic, message handlers interleave    *)
(* only at awaits.                                                         *)
(***************************************************************************)
EXTENDS Integers, Sequences, FiniteSets, TLC

\* ------------------------------------------------------------------ bounds
\* agent-loop iterations explored per objective (the code's cap is maxSteps)
MaxIter == 3

\* identities issued before the scanner stops rescanning
MaxIssued == 6

\* elements the page inserts between two scans
MaxInserts == 2

\* a document takes insertions while it has fewer elements than this
MaxElements == 3

\* objectives of the longest plan of PlanResults below
MaxPlanLen == 3

\* segments the separators of the heuristic planner cut a task text into
MaxParts == 11

\* ------------------------------------------------------- program constants
maxSteps == 50
maxAutoScrolls == 5
viewportHeight == 720
scrollAmount == 600
noteSliceLen == 2000
noteMinLen == 50
meaningfulNoteLen == 100
urlDeeperMargin == 20

None == "none"

\* --------------------------------------------------------------- the pages
\* Concrete URLs the browser can be on.  "home" is config.startUrl.
Urls == {"https://example.com/",
         "https://www.google.com/search?q=openai+demos",
         "https://www.youtube.com/watch?v=abc123"}

startUrl == "https://example.com/"

\* The substrings the code probes for (String.includes) that each URL,
\* lower-cased, really contains.
UrlSubstrings(u) ==
  CASE u = "https://example.com/" -> {"example.com"}
    [] u = "https://www.google.com/search?q=openai+demos" ->
         {"search", "?q=", "google.com", "www.google.com"}
    [] u = "https://www.youtube.com/watch?v=abc123" ->
         {"watch", "watch?v=", "youtube.com", "www.youtube.com"}
    [] OTHER -> {}

UrlIncludes(u, sub) == sub \in UrlSubstrings(u)

UrlLength(u) ==
  CASE u = "https://example.com/" -> 20
    [] u = "https://www.google.com/search?q=openai+demos" -> 44
    [] u = "https://www.youtube.com/watch?v=abc123" -> 38
    [] OTHER -> 0

\* new URL(targetUrl).hostname
Hostname(u) ==
  CASE u = "https://example.com/" -> "example.com"
    [] u = "https://www.google.com/search?q=openai+demos" -> "www.google.com"
    [] u = "https://www.youtube.com/watch?v=abc123" -> "www.youtube.com"
    [] OTHER -> ""

\* length of document.body.innerText on each page
VisibleTextLength(u) ==
  CASE u = "https://example.com/" -> 40
    [] u = "https://www.google.com/search?q=openai+demos" -> 60
    [] u = "https://www.youtube.com/watch?v=abc123" -> 5000
    [] OTHER -> 0

\* document.body.scrollHeight of each page
ScrollHeightOf(u) ==
  CASE u = "https://example.com/" -> 720
    [] u = "https://www.google.com/search?q=openai+demos" -> 1320
    [] u = "https://www.youtube.com/watch?v=abc123" -> 1920
    [] OTHER -> 720

\* --------------------------------------------------------------- the plans
\* Plan steps (PlanResult['steps'] entries).  titleSubs: the substrings the
\* code probes for that the lower-cased title contains; titleLen its length.
navYouTube ==
  [title |-> "Navigate to YouTube", titleLen |-> 19, needsAuth |-> FALSE,
   targetUrl |-> None, titleSubs |-> {"navigate", "navigate to", "youtube"}]

searchDemos ==
  [title |-> "Search for OpenAI demos", titleLen |-> 23, needsAuth |-> FALSE,
   targetUrl |-> None, titleSubs |-> {"search"}]

signIn ==
  [title |-> "Sign in to the student portal", titleLen |-> 29, needsAuth |-> TRUE,
   targetUrl |-> None, titleSubs |-> {}]

openVideo ==
  [title |-> "Open the demo video and read its description", titleLen |-> 44,
   needsAuth |-> FALSE, targetUrl |-> "https://www.youtube.com/watch?v=abc123",
   titleSubs |-> {}]

\* The plans the planner returns in the model (PlanResult: steps and
\* needsSynthesis)
PlanResults == {
  [steps |-> <<searchDemos>>, needsSynthesis |-> FALSE],
  [steps |-> <<navYouTube>>, needsSynthesis |-> TRUE],
  [steps |-> <<signIn, searchDemos>>, needsSynthesis |-> FALSE],
  [steps |-> <<searchDemos, signIn>>, needsSynthesis |-> FALSE],
  [steps |-> <<openVideo, searchDemos>>, needsSynthesis |-> TRUE],
  [steps |-> <<searchDemos, navYouTube, openVideo>>, needsSynthesis |-> TRUE] }

TitleIncludes(step, sub) == sub \in step.titleSubs

\* Orchestrator.isStepLikelyDone(stepTitle, currentUrl, targetUrl)
isStepLikelyDone(step, currentUrl) ==
  \/ /\ step.targetUrl # None
     /\ UrlIncludes(currentUrl, Hostname(step.targetUrl))
     /\ \/ UrlIncludes(currentUrl, "search")
        \/ UrlIncludes(currentUrl, "results")
        \/ UrlIncludes(currentUrl, "watch")
        \/ UrlIncludes(currentUrl, "/in/")
        \/ UrlIncludes(currentUrl, "/p/")
        \/ UrlLength(currentUrl) > UrlLength(step.targetUrl) + urlDeeperMargin
  \/ /\ TitleIncludes(step, "navigate")
     /\ \/ TitleIncludes(step, "youtube") /\ UrlIncludes(currentUrl, "youtube.com")
        \/ TitleIncludes(step, "linkedin") /\ UrlIncludes(currentUrl, "linkedin.com")
        \/ TitleIncludes(step, "google") /\ UrlIncludes(currentUrl, "google.com")
  \/ /\ \/ TitleIncludes(step, "search")
        \/ TitleIncludes(step, "type") /\ TitleIncludes(step, "query")
        \/ TitleIncludes(step, "initiate")
     /\ \/ UrlIncludes(currentUrl, "search")
        \/ UrlIncludes(currentUrl, "results")
        \/ UrlIncludes(currentUrl, "?q=")
        \/ UrlIncludes(currentUrl, "query=")
  \/ /\ TitleIncludes(step, "click")
     /\ \/ UrlIncludes(currentUrl, "watch?v=")
        \/ UrlIncludes(currentUrl, "/video/")
        \/ UrlIncludes(currentUrl, "/in/") /\ UrlIncludes(currentUrl, "linkedin.com")

\* The fast-forward loop of runAgentLoop: skip every next step that
\* isStepLikelyDone says is accomplished; planIndex counts completed steps,
\* so the next step is plan[planIndex + 1] in 1-based sequences.
\* Result: new planIndex and new completedSteps.
RECURSIVE FastForwardFrom(_, _, _, _)
FastForwardFrom(plan, planIndex, completedSteps, currentUrl) ==
  IF planIndex < Len(plan) /\ isStepLikelyDone(plan[planIndex + 1], currentUrl)
  THEN FastForwardFrom(plan, planIndex + 1,
                       Append(completedSteps, plan[planIndex + 1].title), currentUrl)
  ELSE [planIndex |-> planIndex, completedSteps |-> completedSteps]

\* a fast-forward written with `if` instead of `while`: skips one step at most
FastForwardOnce(plan, planIndex, completedSteps, currentUrl) ==
  IF planIndex < Len(plan) /\ isStepLikelyDone(plan[planIndex + 1], currentUrl)
  THEN [planIndex |-> planIndex + 1,
        completedSteps |-> Append(completedSteps, plan[planIndex + 1].title)]
  ELSE [planIndex |-> planIndex, completedSteps |-> completedSteps]

FastForward(plan, planIndex, completedSteps, currentUrl) ==
  FastForwardFrom(plan, planIndex, completedSteps, currentUrl)

\* --------------------------------------------------- regions and actions
\* What a scan returns (DOMTools.scanPage): every id is "element-" + 8 hex
\* digits, so its prefix is "element".  labelSubs: the keywords the code
\* probes for that the lower-cased label contains.
Regions == <<
  [id |-> "element-1a", prefix |-> "element", role |-> "link",
   label |-> "More information", labelSubs |-> {}],
  [id |-> "element-2b", prefix |-> "element", role |-> "input",
   label |-> "Search", labelSubs |-> {"search"}],
  [id |-> "element-3c", prefix |-> "element", role |-> "button",
   label |-> "Submit order", labelSubs |-> {"submit"}] >>

RegionIds == {Regions[i].id : i \in 1..Len(Regions)}

\* config.guardrails.requireConfirmFor (default)
requireConfirmFor == {"submit", "enroll", "pay", "send", "delete", "remove"}

Act(type, regionId, value) == [type |-> type, regionId |-> regionId, value |-> value]

NoAction == Act(None, None, None)

\* the secret markers a fill value contains
ValueSubs(v) == IF v = "SECRET.password" THEN {"SECRET."} ELSE {}

\* decisions a valid LLM answer can carry (after DecisionSchema validation);
\* a DOM_CLICK addressed by role and name has no regionId and carries the
\* name in `value`
LlmActions == {
  Act("DONE", None, None),
  Act("ASK_USER", None, None),
  Act("CONFIRM", None, None),
  Act("VISION_CLICK", "element-1a", None),
  Act("VISION_CLICK", "element-3c", None),
  Act("DOM_CLICK", None, "Submit order"),
  Act("VISION_FILL", "element-2b", "openai demos"),
  Act("DOM_FILL", "element-2b", "openai demos"),
  Act("DOM_FILL", "element-2b", "SECRET.password"),
  Act("VISION_FILL", "element-2b", "SECRET.password"),
  Act("KEY_PRESS", "element-3c", "Enter") }

\* outcome of tryGeminiDecision's request: a valid decision, a non-OK HTTP
\* response, or any other failure (no key, exception, bad JSON, bad schema)
LlmResults ==
  {[kind |-> "ok", action |-> x] : x \in LlmActions}
    \cup {[kind |-> "http_error", action |-> NoAction],
          [kind |-> "null", action |-> NoAction]}

\* regions.find(r => r.id === regionId): index of the region, 0 if absent
FindRegion(regionId) ==
  LET idx == {i \in 1..Len(Regions) : Regions[i].id = regionId}
  IN IF idx = {} THEN 0 ELSE CHOOSE i \in idx : \A j \in idx : i <= j

\* the scanned region act(action) clicks, 0 if none: cursorClick and
\* clickByRegionId on the action's region, cursorFill's click to focus, and
\* clickByRole(role, name) on the region that carries the name
clickedRegion(action) ==
  CASE action.type \in {"VISION_CLICK", "VISION_FILL"} -> FindRegion(action.regionId)
    [] action.type = "DOM_CLICK" ->
         IF action.regionId # None THEN FindRegion(action.regionId)
         ELSE LET idx == {i \in 1..Len(Regions) : Regions[i].label = action.value}
              IN IF idx = {} THEN 0 ELSE CHOOSE i \in idx : \A j \in idx : i <= j
    [] OTHER -> 0

\* Guardrails.checkAction(action, regions)
checkAction(action) ==
  LET i == FindRegion(action.regionId) IN
  IF /\ action.type \in {"VISION_CLICK", "DOM_CLICK"}
     /\ i # 0
     /\ Regions[i].labelSubs \cap requireConfirmFor # {}
  THEN [allowed |-> FALSE, requiresConfirmation |-> TRUE]
  ELSE IF /\ action.type = "DOM_FILL"
          /\ ValueSubs(action.value) \cap {"SECRET.", "PASSWORD", "API_KEY"} # {}
  THEN [allowed |-> FALSE, requiresConfirmation |-> FALSE]
  ELSE [allowed |-> TRUE, requiresConfirmation |-> FALSE]

\* a gate that forgets the DOM variant of a fill
lastWasVisionFill(lastAction) == lastAction.type = "VISION_FILL"

\* lastWasFill of runLoop
lastWasFill(lastAction) == lastAction.type \in {"VISION_FILL", "DOM_FILL"}

\* r.id.startsWith('button-') || 'link-' || 'role-'
clickable(r) == r.prefix \in {"button", "link", "role"}

\* regions.find(...) of the second auto-recovery try: first clickable region
\* whose label contains a search/submit keyword; 0 if there is none
submitCandidate ==
  LET idx == {i \in 1..Len(Regions) :
                clickable(Regions[i])
                /\ Regions[i].labelSubs \cap {"search", "submit", "go", "find"} # {}}
  IN IF idx = {} THEN 0 ELSE CHOOSE i \in idx : \A j \in idx : i <= j

\* the action the auto-recovery gate injects at escalation position `tries`
\* (0 or 1); the third position asks the user instead
injectedAction(tries, lastAction) ==
  IF tries = 0 THEN Act("KEY_PRESS", lastAction.regionId, "Enter")
  ELSE IF submitCandidate # 0
       THEN Act("VISION_CLICK", Regions[submitCandidate].id, None)
       ELSE Act("KEY_PRESS", None, "Enter")

\* regions.find(r => r.role === 'link'): the first region a scan reports
\* with the role link, 0 if there is none
firstLinkRegion ==
  LET idx == {i \in 1..Len(Regions) : Regions[i].role = "link"}
  IN IF idx = {} THEN 0 ELSE CHOOSE i \in idx : \A j \in idx : i <= j

\* the first region with the role button or link whose label contains one
\* of the search/submit keywords, 0 if there is none
keywordButton ==
  LET idx == {i \in 1..Len(Regions) :
                /\ Regions[i].role \in {"button", "link"}
                /\ Regions[i].labelSubs \cap {"search", "submit", "go", "find"} # {}}
  IN IF idx = {} THEN 0 ELSE CHOOSE i \in idx : \A j \in idx : i <= j

\* ------------------------------------------------------------ the decider
\* The task text of the session, "Click the first link on the page":
\* the probes task.toLowerCase().includes(..) that succeed on the prompt.
TaskSubs == {"click", "first link"}

\* heuristic clicks of decide(): first 'link-' region, a clickable region
\* whose label the prompt names, or the first clickable; 0 if none applies
heuristicClick ==
  LET links == {i \in 1..Len(Regions) : Regions[i].prefix = "link"}
      clickables == {i \in 1..Len(Regions) : clickable(Regions[i])}
  IN IF {"click", "first link"} \subseteq TaskSubs /\ links # {}
     THEN CHOOSE i \in links : \A j \in links : i <= j
     ELSE IF "click" \in TaskSubs /\ clickables # {}
     THEN CHOOSE i \in clickables : \A j \in clickables : i <= j
     ELSE 0

\* alreadyDone of decide(): the CURRENT STEP line against the current URL
alreadyDone(step, currentUrl) ==
  \/ /\ TitleIncludes(step, "navigate to")
     /\ \/ TitleIncludes(step, "youtube") /\ UrlIncludes(currentUrl, "youtube.com")
        \/ TitleIncludes(step, "linkedin") /\ UrlIncludes(currentUrl, "linkedin.com")
        \/ TitleIncludes(step, "google") /\ UrlIncludes(currentUrl, "google.com")
  \/ /\ TitleIncludes(step, "search") \/ TitleIncludes(step, "initiate")
     /\ \/ UrlIncludes(currentUrl, "search")
        \/ UrlIncludes(currentUrl, "results")
        \/ UrlIncludes(currentUrl, "?q=")
        \/ UrlIncludes(currentUrl, "query=")

\* a fallback that gives up one null later than the code does
graduatedFallbackLate(consecutiveFailures) ==
  IF consecutiveFailures < 1
  THEN [action |-> Act("SCROLL", None, "down"), consecutiveFailures |-> consecutiveFailures + 1]
  ELSE IF consecutiveFailures < 3
  THEN [action |-> Act("WAIT", None, "2000"), consecutiveFailures |-> consecutiveFailures + 1]
  ELSE [action |-> Act("DONE", None, None), consecutiveFailures |-> 0]

\* the graduated fallback of decide(): SCROLL, then WAIT, then DONE
graduatedFallback(consecutiveFailures) ==
  IF consecutiveFailures < 1
  THEN [action |-> Act("SCROLL", None, "down"), consecutiveFailures |-> consecutiveFailures + 1]
  ELSE IF consecutiveFailures < 2
  THEN [action |-> Act("WAIT", None, "2000"), consecutiveFailures |-> consecutiveFailures + 1]
  ELSE [action |-> Act("DONE", None, None), consecutiveFailures |-> 0]

\* tryGeminiDecision: the LLM decision, or NoAction for null.  A non-OK
\* response on step 1 is turned into an ASK_USER decision.
tryGeminiDecision(llm, step) ==
  IF llm.kind = "ok" THEN llm.action
  ELSE IF llm.kind = "http_error" /\ step = 1 THEN Act("ASK_USER", None, None)
  ELSE NoAction

\* AgentController.decide: the decision's action, the new consecutiveFailures
\* and how the decision was produced
decide(llm, stepNumber, consecutiveFailures, step, currentUrl) ==
  LET llmDecision == tryGeminiDecision(llm, stepNumber) IN
  IF llmDecision # NoAction
  THEN [action |-> llmDecision, consecutiveFailures |-> 0, via |-> "llm"]
  ELSE IF heuristicClick # 0
  THEN [action |-> Act("VISION_CLICK", Regions[heuristicClick].id, None),
        consecutiveFailures |-> consecutiveFailures, via |-> "heuristic"]
  ELSE IF alreadyDone(step, currentUrl)
  THEN [action |-> Act("DONE", None, None), consecutiveFailures |-> 0, via |-> "alreadyDone"]
  ELSE LET g == graduatedFallback(consecutiveFailures)
       IN [action |-> g.action, consecutiveFailures |-> g.consecutiveFailures,
           via |-> "fallback"]

\* ================================================================ state
VARIABLES
  s,          \* the activeSessions entry: plan, planIndex, completedSteps,
              \* researchNotes, needsSynthesis, paused, resume, pendingAction,
              \* pausedForHumanObjective
  active,     \* the session id is a key of activeSessions
  browser,    \* "none" | "open" | "closing" | "closed"
  dbStatus,   \* sessions.status of the session row
  a,          \* the AgentController fields
  pg,         \* the page of the newest tab: url, scrollY
  pc,         \* the await at which runAgentLoop / the approval handler waits
  hpc,        \* the await at which a stop / rejection handler waits
  cur,        \* locals of runLoop alive across an await: action, urlBefore, ...
  lastStatus, \* status of the last status event sent for the session
  pauseKind,  \* pauseKind of the last paused status event
  stopHandled,       \* a stop message for the session has been handled
  emittedAfterStop,  \* an event of the session was sent after that
  completedMsgs,     \* number of "Objective completed" status messages sent
  synthInvoked,      \* synthesizeFindings was called
  findingsEmitted,   \* the "RESEARCH FINDINGS:" log was sent
  iterFill,          \* this iteration started with a fill that changed nothing
  gateTaken,         \* what this iteration did after OBSERVE
  nullRun,           \* fallback decisions in a row since the last LLM decision
  nullRunUrl,        \* the same, also restarted when the observed URL changes
  lastDecision,      \* action and origin of the last decision of decide(), and
                     \* whether its LLM request failed
  ffUrl,             \* URL the last fast-forward ran against, None if stale
  bodyRuns,          \* per objective: how often runLoop's body was started
  resumedAt,         \* objectives whose agent loop was re-entered after a pause
  verifyThrew,       \* the last VERIFY lost its execution context to the
                     \* action's navigation (until the next OBSERVE)
  recoveryAsks,      \* auto-recovery ASK_USER pauses in a row with no DECIDE
                     \* and no injection in between (counted up to 2)
  planner,           \* planTaskWithGemini: the task, where the call stands,
                     \* the scout context and the plan it returned
  startStop,         \* a stop message before the session is in
                     \* activeSessions: None, "announced" (status 'started'
                     \* was sent), "stopped" (the stop was handled)
  actShot,           \* the screenshot of the action executed in this iteration:
                     \* "due" once act() succeeded, "sent" once it was sent
  stepNos,           \* step numbers sent, relative to session.stepCount
  msgErr,            \* kind of the last message refused with an error event
  tabs,              \* number of tabs of the browser context, newest last
  bound,             \* the tab DOMTools and the screenshot manager are bound to
  approval,          \* branch of the confirmation being handled, until the
                     \* traversal resumes: "rejected" | "action" | "manual"
  dom,               \* the document of the page: its elements in document order
  elementStore,      \* DOMTools.elementStore: ids whose locator is stored
  regions,           \* what the last completed scanPage returned
  scanPc,            \* "idle" | "spaWait" (scanPage waits for SPA hydration)
  nextId,            \* stands for randomUUID: the next fresh identity
  retired,           \* ids issued by scans before the last completed one
  inserted,          \* elements inserted since the last completed scan
  lastAct            \* the region-id operation made on the document as it is

orchVars == <<s, active, browser, dbStatus, a, pg, pc, hpc, cur, lastStatus,
              pauseKind, stopHandled, emittedAfterStop, completedMsgs,
              synthInvoked, findingsEmitted, iterFill, gateTaken, nullRun,
              nullRunUrl, lastDecision, ffUrl, approval, bodyRuns, resumedAt,
              actShot, stepNos, msgErr, tabs, bound,
              verifyThrew, recoveryAsks, startStop, planner>>

capVars == <<bodyRuns, resumedAt>>

envVars == <<msgErr, tabs, bound>>

scanVars == <<dom, elementStore, regions, scanPc, nextId, retired, inserted,
              lastAct>>

vars == <<orchVars, scanVars>>

\* no call of the planner has been made
plannerIdle ==
  [stage |-> "idle", task |-> <<>>, scoutContext |-> FALSE, failed |-> None,
   result |-> [needsSynthesis |-> FALSE, source |-> None,
               verifiedUrls |-> FALSE, steps |-> <<>>]]

\* the AgentController as constructed
agentInit ==
  [stepCount |-> 0, lastAction |-> NoAction, lastOutcome |-> None,
   postFillSubmitTries |-> 0, consecutiveFailures |-> 0,
   scrollCount |-> 0, contentVisible |-> FALSE, bottomReached |-> FALSE,
   lastScrollY |-> 0, lastScrollHeight |-> 0, lastUrl |-> ""]

\* the entry handleTask stores in activeSessions
sessionInit(plan, needsSynthesis) ==
  [plan |-> plan, planIndex |-> 0, completedSteps |-> <<>>,
   researchNotes |-> <<>>, needsSynthesis |-> needsSynthesis,
   paused |-> FALSE, resume |-> FALSE, pendingAction |-> NoAction,
   pausedForHumanObjective |-> None]

noLocals == [action |-> NoAction, urlBefore |-> "", textChanged |-> FALSE, scrollYBefore |-> 0]

noAct == [op |-> None, id |-> 0, wasRetired |-> FALSE, afterInsert |-> FALSE,
          expected |-> 0, result |-> None, node |-> 0]

\* a DOMTools as constructed, on a page whose document `d` is
scanInit(d) ==
  /\ dom = d
  /\ elementStore = {}
  /\ regions = <<>>
  /\ scanPc = "idle"
  /\ nextId = 1
  /\ retired = {}
  /\ inserted = 0
  /\ lastAct = noAct

\* the orchestrator as constructed: no session
orchInit ==
  /\ s = sessionInit(<<>>, FALSE)
  /\ active = FALSE
  /\ browser = "none"
  /\ dbStatus = None
  /\ a = agentInit
  /\ pg = [url |-> "", scrollY |-> 0]
  /\ pc = "none"
  /\ hpc = "none"
  /\ cur = noLocals
  /\ lastStatus = None
  /\ pauseKind = None
  /\ stopHandled = FALSE
  /\ emittedAfterStop = FALSE
  /\ completedMsgs = 0
  /\ synthInvoked = FALSE
  /\ findingsEmitted = FALSE
  /\ iterFill = FALSE
  /\ gateTaken = None
  /\ nullRun = 0
  /\ nullRunUrl = 0
  /\ lastDecision = [action |-> NoAction, via |-> None, failed |-> FALSE]
  /\ ffUrl = None
  /\ approval = None
  /\ bodyRuns = [i \in 1..MaxPlanLen |-> 0]
  /\ resumedAt = {}
  /\ actShot = None
  /\ verifyThrew = FALSE
  /\ recoveryAsks = 0
  /\ startStop = None
  /\ planner = plannerIdle
  /\ stepNos = [lead |-> 0, regressed |-> FALSE, rowRepeated |-> FALSE]
  /\ msgErr = None
  /\ tabs = 1
  /\ bound = 1

Init == orchInit /\ scanInit(<<>>)

\* ------------------------------------------------------------ environment
\* whether a call into the browser toolkit succeeds: it does while the
\* browser is open and rejects once close() has been issued
BrowserAlive == IF browser = "open" THEN {TRUE} ELSE {FALSE}

\* what an executed action can do to the page: nothing, change the text
\* snippet on the same URL, or land on another URL
PagesAfter(page) ==
  {[page |-> page, textChanged |-> FALSE], [page |-> page, textChanged |-> TRUE]}
    \cup {[page |-> [url |-> u, scrollY |-> 0], textChanged |-> TRUE] :
             u \in Urls \ {page.url}}

\* whether detectRegions of OBSERVE succeeds: it rejects once close() has
\* been issued, and it can reject while the page is being replaced by a
\* navigation (the execution context of page.evaluate is destroyed)
DetectRegionsOk ==
  IF browser # "open" THEN {FALSE}
  ELSE IF pg.url # a.lastUrl THEN {TRUE, FALSE} ELSE {TRUE}

Min(x, y) == IF x < y THEN x ELSE y
Max(x, y) == IF x > y THEN x ELSE y

\* window.scrollY after DOMTools.scroll('down', 600) on the page
ScrolledDown(page) ==
  [page EXCEPT !.scrollY =
     Min(page.scrollY + scrollAmount, Max(0, ScrollHeightOf(page.url) - viewportHeight))]

\* stateChanged of runLoop: url, title or text snippet differ (the title is
\* a function of the URL here)
stateChanged(urlBefore, textChanged, page) ==
  urlBefore # page.url \/ textChanged

\* sendMessage: records that an event of the session left after its stop
Emit == emittedAfterStop' = (emittedAfterStop \/ stopHandled)

currentStep == s.plan[s.planIndex + 1]

\* ------------------------------------------------------- step numbers
\* Step numbers are kept relative to session.stepCount, which only grows:
\* lead is (largest step number sent in a log or screenshot event) minus
\* session.stepCount; regressed records that an event carried a smaller
\* number than an earlier one; rowRepeated that a step row or loop log did
\* not carry a larger number than the one before.

\* a callback that numbers the step without counting it
onStepNumberSame(stepCount) == stepCount

\* the onStep callback: session.stepCount++; stepNumber = session.stepCount
onStepNumber(stepCount) == stepCount + 1

\* the step number of the SYNTHESIS logs: session.stepCount + 1
synthesisStep(stepCount) == stepCount + 1

\* an event with step = session.stepCount + off leaves
sendStep(sn, off) ==
  [sn EXCEPT !.regressed = @ \/ off < sn.lead,
             !.lead = Max(sn.lead, off)]

\* one or more calls of the onStep callback: each inserts a step row and
\* sends a log (and, after an ACT with its action, a screenshot) numbered
\* by the incremented counter
onStep(sn) ==
  LET inc == onStepNumber(0)
      moved == [sn EXCEPT !.lead = sn.lead - inc,
                          !.rowRepeated = @ \/ inc < 1]
      sent == sendStep(moved, 0)
  IN [sent EXCEPT !.lead = Max(@, 0)]

\* ------------------------------------------- continuations of runAgentLoop
\* The fragments below are the synchronous code that several awaits resume
\* into.  Each fixes s, a, pc, dbStatus, lastStatus, pauseKind, iterFill,
\* gateTaken, synthInvoked and emittedAfterStop; the calling action fixes the
\* rest.  em: an event was already sent in this action; g: gateTaken.

\* the .catch handler of runAgentLoop: error event, status 'error' in the DB
Catch ==
  /\ pc' = "idle"
  /\ dbStatus' = "error"
  /\ Emit
  /\ UNCHANGED <<s, a, lastStatus, pauseKind, iterFill, gateTaken, synthInvoked,
                 stepNos>>

\* a filter that reuses the 50-character threshold of the note capture
meaningfulNotesLoose(researchNotes) ==
  SelectSeq(researchNotes, LAMBDA n : n > noteMinLen)

\* researchNotes.filter(n => n.length > 100); a note is kept as its length
meaningfulNotes(researchNotes) ==
  SelectSeq(researchNotes, LAMBDA n : n > meaningfulNoteLen)

\* a traversal loop that stops one step early
traversalStopsEarly(planIndex, plan) == planIndex < Len(plan) - 1

\* the test of the objective traversal loop
traversalContinues(planIndex, plan) == planIndex < Len(plan)

\* after the traversal loop: the synthesis gate, then status=completed
Finish(s2, a2, g, sn) ==
  /\ s' = s2
  /\ a' = a2
  /\ gateTaken' = g
  /\ Emit
  /\ UNCHANGED <<pauseKind, iterFill>>
  /\ IF s2.needsSynthesis /\ Len(meaningfulNotes(s2.researchNotes)) > 0
     THEN /\ synthInvoked' = TRUE
          /\ pc' = "synthesize"
          /\ stepNos' = sendStep(sn, synthesisStep(0))
          /\ UNCHANGED <<dbStatus, lastStatus>>
     ELSE /\ dbStatus' = "completed"
          /\ lastStatus' = "completed"
          /\ pc' = "idle"
          /\ stepNos' = sn
          /\ UNCHANGED synthInvoked

\* the head of the objective traversal loop (while planIndex < plan.length)
TraversalHead(s2, a2, em, g, sn) ==
  IF traversalContinues(s2.planIndex, s2.plan)
  THEN /\ s' = s2
       /\ stepNos' = sn
       /\ a' = a2
       /\ gateTaken' = g
       /\ pc' = "preNavigate"
       /\ emittedAfterStop' = (emittedAfterStop \/ (em /\ stopHandled))
       /\ UNCHANGED <<dbStatus, lastStatus, pauseKind, iterFill, synthInvoked>>
  ELSE Finish(s2, a2, g, sn)

\* runAgentLoop after agent.runLoop returned `result`
LoopReturn(result, s2, a2, em, g) ==
  LET s3 == [s2 EXCEPT !.resume = FALSE] IN
  /\ a' = a2
  /\ gateTaken' = g
  /\ UNCHANGED <<iterFill, synthInvoked, stepNos>>
  /\ IF result.completed
     THEN /\ s' = s3
          /\ pc' = "captureNote"
          /\ emittedAfterStop' = (emittedAfterStop \/ (em /\ stopHandled))
          /\ UNCHANGED <<dbStatus, lastStatus, pauseKind>>
     ELSE IF result.pauseKind # None \/ result.pendingAction # NoAction
     THEN /\ s' = [s3 EXCEPT !.paused = TRUE, !.resume = TRUE,
                             !.pendingAction = result.pendingAction]
          /\ dbStatus' = "paused"
          /\ lastStatus' = "paused"
          /\ pauseKind' = result.pauseKind
          /\ pc' = "idle"
          /\ Emit
     ELSE /\ s' = s3
          /\ dbStatus' = "error"
          /\ lastStatus' = "error"
          /\ pc' = "idle"
          /\ Emit
          /\ UNCHANGED pauseKind

Result(completed, kind, pending) ==
  [completed |-> completed, pauseKind |-> kind, pendingAction |-> pending]

\* exploration only: in a single-objective session the iterations that only
\* auto-scroll are explored on top of MaxIter, so that the scroll cap is met
scrollAllowance(s2, a2) == IF Len(s2.plan) = 1 THEN a2.scrollCount ELSE 0

\* the head of runLoop's while loop and, if the cap allows, the start of an
\* iteration: stepCount++, the OBSERVE log, the await of detectRegions
LoopHeadFrom(s2, a2, sn) ==
  IF a2.stepCount < maxSteps
  THEN /\ a2.stepCount - scrollAllowance(s2, a2) < MaxIter
       /\ s' = s2
       /\ a' = [a2 EXCEPT !.stepCount = @ + 1]
       /\ pc' = "observe"
       /\ iterFill' = (/\ a2.lastAction.type \in {"VISION_FILL", "DOM_FILL"}
                       /\ a2.lastOutcome = "unchanged")
       /\ gateTaken' = None
       /\ stepNos' = onStep(sn)
       /\ Emit
       /\ UNCHANGED <<dbStatus, lastStatus, pauseKind, synthInvoked>>
  ELSE /\ LoopReturn(Result(FALSE, None, NoAction), s2, a2, FALSE, gateTaken)
       /\ sn = stepNos

\* the head of the while loop reached from inside the loop
LoopHead(s2, a2) == LoopHeadFrom(s2, a2, stepNos)

\* the reset at the top of runLoop when opts.resetStepCount is true
resetForObjective(a2) ==
  [a2 EXCEPT !.stepCount = 0, !.lastAction = NoAction, !.lastOutcome = None,
             !.scrollCount = 0, !.contentVisible = FALSE, !.bottomReached = FALSE,
             !.lastScrollY = 0, !.lastScrollHeight = 0, !.consecutiveFailures = 0]

\* a call that resets the counters on every entry, resumed or not
resetStepCountAlways(resume) == TRUE

\* the option runAgentLoop passes to runLoop: { resetStepCount: !session.resume }
resetStepCount(resume) == ~resume

\* ================================================================ actions
\* handleTask: plan the task, create the session row, launch the browser,
\* navigate to the start URL, store the session, call runAgentLoop
HandleTask(plan, needsSynthesis) ==
  /\ UNCHANGED stepNos
  /\ UNCHANGED <<scanVars, capVars, approval, tabs, bound, actShot,
                 verifyThrew, recoveryAsks, startStop, planner>>
  /\ msgErr' = None
  /\ pc = "none"
  /\ s' = sessionInit(plan, needsSynthesis)
  /\ active' = TRUE
  /\ browser' = "open"
  /\ dbStatus' = "running"
  /\ lastStatus' = "running"
  /\ pg' = [url |-> startUrl, scrollY |-> 0]
  /\ pc' = "entry"
  /\ Emit
  /\ UNCHANGED <<a, hpc, cur, pauseKind, stopHandled, completedMsgs, synthInvoked,
                 findingsEmitted, iterFill, gateTaken, nullRun, nullRunUrl,
                 lastDecision, ffUrl>>

\* handleTask when browser.launch() ("launch") or the navigation to the
\* start URL ("navigate") throws: the started/running status events and the
\* session row exist, the exception reaches the message handler's catch,
\* which sends an error event; activeSessions.set was not reached
HandleTaskFailure(stage) ==
  /\ UNCHANGED stepNos
  /\ UNCHANGED <<scanVars, capVars, envVars, approval>>
  /\ UNCHANGED <<actShot, verifyThrew, recoveryAsks, startStop, planner>>
  /\ pc = "none"
  /\ pc' = "startFailed"
  /\ dbStatus' = "running"
  /\ lastStatus' = "running"
  /\ browser' = IF stage = "launch" THEN "none" ELSE "open"
  /\ Emit
  /\ UNCHANGED <<s, active, a, pg, hpc, cur, pauseKind, stopHandled, completedMsgs,
                 synthInvoked, findingsEmitted, iterFill, gateTaken, nullRun,
                 nullRunUrl, lastDecision, ffUrl>>

\* RunAgentLoopEntry sends status events only: they carry no step number
\* runAgentLoop up to its first await: session lookup, completion of a
\* human-owned objective on resume, the needsAuth pause
RunAgentLoopEntry ==
  /\ UNCHANGED stepNos
  /\ UNCHANGED <<scanVars, capVars, envVars, approval>>
  /\ UNCHANGED <<actShot, verifyThrew, recoveryAsks, startStop, planner>>
  /\ pc = "entry"
  /\ UNCHANGED <<active, browser, a, pg, hpc, cur, stopHandled, synthInvoked,
                 findingsEmitted, iterFill, gateTaken, nullRun, nullRunUrl,
                 lastDecision, ffUrl>>
  /\ IF ~active
     THEN /\ pc' = "idle"
          /\ dbStatus' = "error"
          /\ Emit
          /\ UNCHANGED <<s, lastStatus, pauseKind, completedMsgs>>
     ELSE LET human == s.resume /\ s.pausedForHumanObjective # None
              s1 == IF human
                    THEN [s EXCEPT
                            !.completedSteps = Append(@, s.pausedForHumanObjective),
                            !.planIndex = @ + 1,
                            !.pausedForHumanObjective = None,
                            !.paused = FALSE, !.resume = FALSE]
                    ELSE s
              atStep == s1.planIndex < Len(s1.plan)
          IN /\ completedMsgs' = IF human THEN completedMsgs + 1 ELSE completedMsgs
             /\ IF atStep /\ s1.plan[s1.planIndex + 1].needsAuth
                THEN /\ s' = [s1 EXCEPT
                                !.paused = TRUE, !.resume = TRUE,
                                !.pendingAction = NoAction,
                                !.pausedForHumanObjective =
                                   s1.plan[s1.planIndex + 1].title]
                     /\ dbStatus' = "paused"
                     /\ lastStatus' = "paused"
                     /\ pauseKind' = "ASK_USER"
                     /\ pc' = "idle"
                     /\ Emit
                ELSE /\ s' = s1
                     /\ pc' = "initialObservation"
                     /\ lastStatus' = IF human THEN "running" ELSE lastStatus
                     /\ emittedAfterStop' = (emittedAfterStop \/ (human /\ stopHandled))
                     /\ UNCHANGED <<dbStatus, pauseKind>>

\* runAgentLoop resumed after the initial detectRegions and screenshot
\* capture: sends the screenshot event and enters the traversal loop
InitialObservation ==
  /\ UNCHANGED <<scanVars, capVars, envVars, approval>>
  /\ UNCHANGED <<actShot, verifyThrew, recoveryAsks, startStop, planner>>
  /\ pc = "initialObservation"
  /\ UNCHANGED <<active, browser, pg, hpc, cur, stopHandled, completedMsgs,
                 findingsEmitted, nullRun, nullRunUrl, lastDecision, ffUrl>>
  /\ \E ok \in BrowserAlive :
       IF ok THEN TraversalHead(s, a, TRUE, gateTaken, sendStep(stepNos, 0))
       ELSE Catch

\* a continuation that only moves on to the next await
Goto(s2, a2, p, g) ==
  /\ s' = s2
  /\ a' = a2
  /\ pc' = p
  /\ gateTaken' = g
  /\ stepNos' = onStep(stepNos)
  /\ Emit
  /\ UNCHANGED <<dbStatus, lastStatus, pauseKind, iterFill, synthInvoked>>

Outcome(changed) == IF changed THEN "changed" ELSE "unchanged"

\* traversal loop body up to runLoop's first await: re-bind to the newest
\* tab, pre-navigate to the step's targetUrl (failures are swallowed), call
\* agent.runLoop with resetStepCount = !session.resume
PreNavigate ==
  /\ UNCHANGED <<scanVars, capVars, msgErr, tabs, actShot,
                 verifyThrew, recoveryAsks, startStop, planner>>
  /\ bound' = tabs      \* setPage(newest tab) on DOMTools and the managers
  /\ approval' = None    \* the confirmation, if any, has been handled
  /\ pc = "preNavigate"
  /\ UNCHANGED <<active, browser, hpc, stopHandled, completedMsgs, findingsEmitted,
                 lastDecision>>
  /\ cur' = noLocals
  /\ ffUrl' = None
  /\ nullRun' = IF s.resume THEN nullRun ELSE 0
  /\ nullRunUrl' = IF s.resume THEN nullRunUrl ELSE 0
  /\ \E ok \in BrowserAlive, navOk \in BOOLEAN :
       /\ pg' = IF currentStep.targetUrl # None /\ ok /\ navOk
                THEN [url |-> currentStep.targetUrl, scrollY |-> 0]
                ELSE pg
       /\ LoopHeadFrom(s, IF resetStepCount(s.resume) THEN resetForObjective(a)
                          ELSE a,
                       IF currentStep.targetUrl # None
                       THEN sendStep(stepNos, 0)   \* the NAVIGATE log
                       ELSE stepNos)

\* runLoop resumed after detectRegions: OBSERVE log, URL-change detection,
\* the auto-recovery gate, the auto-scroll gate's entry test, DECIDE's start
Observe ==
  /\ UNCHANGED <<scanVars, capVars, envVars, approval>>
  /\ actShot' = None
  /\ verifyThrew' = FALSE
  /\ UNCHANGED <<startStop, planner>>
  /\ pc = "observe"
  /\ UNCHANGED <<active, browser, pg, hpc, stopHandled, completedMsgs,
                 findingsEmitted, nullRun, lastDecision, ffUrl>>
  /\ \E ok \in DetectRegionsOk :
       IF ~ok THEN Catch /\ UNCHANGED <<cur, nullRunUrl, recoveryAsks>>
       ELSE
         LET urlChanged == pg.url # a.lastUrl
             a1 == IF urlChanged
                   THEN [a EXCEPT !.scrollCount = 0, !.contentVisible = FALSE,
                                  !.bottomReached = FALSE, !.lastScrollY = 0,
                                  !.lastScrollHeight = 0, !.consecutiveFailures = 0,
                                  !.lastUrl = pg.url]
                   ELSE a
             inj == injectedAction(a1.postFillSubmitTries, a1.lastAction)
             locals == [action |-> inj, urlBefore |-> pg.url,
                        textChanged |-> FALSE, scrollYBefore |-> pg.scrollY]
         IN /\ nullRunUrl' = IF urlChanged THEN 0 ELSE nullRunUrl
            /\ IF lastWasFill(a1.lastAction) /\ a1.lastOutcome = "unchanged"
               THEN IF a1.postFillSubmitTries <= 1
                    THEN /\ cur' = locals
                         /\ recoveryAsks' = 0
                         /\ Goto(s, a1, "recoverAct",
                                 IF inj.type = "KEY_PRESS" THEN "recover_enter"
                                                           ELSE "recover_click")
                    ELSE /\ cur' = cur
                         /\ recoveryAsks' = Min(recoveryAsks + 1, 2)
                         /\ LoopReturn(Result(FALSE, "ASK_USER", NoAction),
                                       s, a1, TRUE, "recover_ask")
               ELSE /\ cur' = cur
                    /\ recoveryAsks' = 0
                    /\ IF /\ ~a1.contentVisible
                          /\ a1.scrollCount < maxAutoScrolls
                          /\ ~a1.bottomReached
                       THEN Goto(s, a1, "checkVisibility", "autoscroll")
                       ELSE Goto(s, a1, "decide", "decide")

\* runLoop resumed after checkSemanticVisibility: content visible, bottom
\* detection from the scroll geometry, or one auto-scroll
CheckVisibility ==
  /\ UNCHANGED <<scanVars, capVars, envVars, approval>>
  /\ UNCHANGED <<actShot, verifyThrew, recoveryAsks, startStop, planner>>
  /\ pc = "checkVisibility"
  /\ UNCHANGED <<active, browser, pg, hpc, stopHandled, completedMsgs,
                 findingsEmitted, nullRun, nullRunUrl, lastDecision, ffUrl>>
  /\ \E visible \in BOOLEAN, ok \in BrowserAlive :
       IF visible
       THEN /\ cur' = cur
            /\ Goto(s, [a EXCEPT !.contentVisible = TRUE], "decide", "decide")
       ELSE IF ~ok THEN Catch /\ cur' = cur
       ELSE
         LET scrollHeight == ScrollHeightOf(pg.url)
             scrollYStuck == pg.scrollY = a.lastScrollY
             heightStuck == scrollHeight = a.lastScrollHeight
             atDocumentBottom == pg.scrollY + viewportHeight >= scrollHeight - 5
             diff == scrollHeight - viewportHeight
             pageUnscrollable == pg.scrollY = 0 /\ diff < 10 /\ diff > -10
         IN IF \/ a.scrollCount > 0 /\ scrollYStuck /\ heightStuck /\ ~pageUnscrollable
               \/ a.scrollCount > 0 /\ atDocumentBottom /\ heightStuck /\ ~pageUnscrollable
               \/ pageUnscrollable /\ a.scrollCount >= maxAutoScrolls
            THEN /\ cur' = cur
                 /\ Goto(s, [a EXCEPT !.bottomReached = TRUE], "decide", "decide")
            ELSE /\ cur' = [action |-> Act("SCROLL", None, "down"), urlBefore |-> pg.url,
                            textChanged |-> FALSE, scrollYBefore |-> pg.scrollY]
                 /\ Goto(s, [a EXCEPT !.scrollCount = @ + 1], "autoScroll", "autoscroll")

\* runLoop resumed after the auto-scroll: records the geometry and the
\* outcome, then `continue`
AutoScroll ==
  /\ UNCHANGED <<scanVars, capVars, envVars, approval>>
  /\ UNCHANGED <<actShot, verifyThrew, recoveryAsks, startStop, planner>>
  /\ pc = "autoScroll"
  /\ UNCHANGED <<active, browser, hpc, stopHandled, completedMsgs, findingsEmitted,
                 nullRun, nullRunUrl, lastDecision, ffUrl>>
  /\ cur' = noLocals
  /\ \E ok \in BrowserAlive, textChanged \in BOOLEAN :
       IF ~ok THEN Catch /\ pg' = pg
       ELSE
         LET page2 == ScrolledDown(pg)
             a2 == [a EXCEPT
                      !.lastScrollY = page2.scrollY,
                      !.lastScrollHeight = ScrollHeightOf(page2.url),
                      !.lastAction = Act("SCROLL", None, "down"),
                      !.lastOutcome = Outcome(textChanged
                                              \/ page2.scrollY # cur.scrollYBefore)]
         IN /\ pg' = page2
            /\ LoopHead(s, a2)

\* runLoop resumed after decide(): terminal decisions, the guardrail check,
\* the start of ACT
Decide ==
  /\ UNCHANGED <<scanVars, capVars, envVars, approval>>
  /\ UNCHANGED <<actShot, verifyThrew, recoveryAsks, startStop, planner>>
  /\ pc = "decide"
  /\ UNCHANGED <<active, browser, pg, hpc, stopHandled, completedMsgs,
                 findingsEmitted, ffUrl>>
  /\ \E llm \in LlmResults :
       LET d == decide(llm, a.stepCount, a.consecutiveFailures, currentStep, pg.url)
           a1 == [a EXCEPT !.consecutiveFailures = d.consecutiveFailures]
           guardrailCheck == checkAction(d.action)
       IN /\ lastDecision' = [action |-> d.action, via |-> d.via,
                               failed |-> llm.kind # "ok"]
          /\ nullRun' = IF d.via = "fallback" THEN Min(nullRun + 1, 4) ELSE 0
          /\ nullRunUrl' = IF d.via = "fallback" THEN Min(nullRunUrl + 1, 4) ELSE 0
          /\ IF d.action.type = "DONE"
             THEN /\ cur' = cur
                  /\ LoopReturn(Result(TRUE, None, NoAction), s, a1, TRUE, gateTaken)
             ELSE IF d.action.type \in {"CONFIRM", "ASK_USER"}
             THEN /\ cur' = cur
                  /\ LoopReturn(Result(FALSE, d.action.type, NoAction),
                                s, a1, TRUE, gateTaken)
             ELSE IF ~guardrailCheck.allowed /\ guardrailCheck.requiresConfirmation
             THEN /\ cur' = cur
                  /\ LoopReturn(Result(FALSE, "CONFIRM", d.action),
                                s, a1, TRUE, gateTaken)
             ELSE IF ~guardrailCheck.allowed
             THEN /\ cur' = cur
                  /\ LoopHead(s, a1)
             ELSE /\ cur' = [action |-> d.action, urlBefore |-> pg.url,
                             textChanged |-> FALSE, scrollYBefore |-> pg.scrollY]
                  /\ Goto(s, a1, "act", gateTaken)

\* pages the action `action` can leave the browser on when it succeeds
PagesAfterAction(action, page) ==
  PagesAfter(IF action.type = "SCROLL" THEN ScrolledDown(page) ELSE page)

\* whether act(action) calls into the browser toolkit
touchesBrowser(action) == action.type \notin {"WAIT", "DONE"}

\* runLoop resumed after act(decision.action): on an exception the outcome
\* is recorded as unchanged and the loop continues; otherwise VERIFY starts
ActStep ==
  /\ UNCHANGED <<scanVars, capVars, envVars, approval>>
  /\ UNCHANGED <<verifyThrew, recoveryAsks, startStop, planner>>
  /\ pc = "act"
  /\ UNCHANGED <<active, browser, hpc, stopHandled, completedMsgs, findingsEmitted,
                 nullRun, nullRunUrl, lastDecision, ffUrl>>
  /\ \E ok \in BrowserAlive, success \in BOOLEAN :
       IF touchesBrowser(cur.action) /\ ~(ok /\ success)
       THEN /\ pg' = pg
            /\ cur' = noLocals
            /\ actShot' = actShot
            /\ LoopHead(s, [a EXCEPT !.lastAction = cur.action,
                                     !.lastOutcome = "unchanged"])
       ELSE \E after \in PagesAfterAction(cur.action, pg) :
              /\ actShot' = "due"
              /\ pg' = after.page
              /\ cur' = [cur EXCEPT !.textChanged = after.textChanged]
              /\ Goto(s, a, "verify", gateTaken)

\* runLoop resumed after verifier.verify and the post-state reads; when they
\* throw (execution context destroyed) only the URL is re-read
Verify ==
  /\ UNCHANGED <<scanVars, capVars, envVars, approval>>
  /\ UNCHANGED <<actShot, recoveryAsks, startStop, planner>>
  /\ pc = "verify"
  /\ UNCHANGED <<active, browser, pg, hpc, stopHandled, completedMsgs,
                 findingsEmitted, nullRun, nullRunUrl, lastDecision, ffUrl>>
  /\ cur' = noLocals
  /\ \E ok \in BrowserAlive, threw \in BOOLEAN :
       LET changed == IF ~ok \/ threw
                      THEN cur.urlBefore # pg.url
                      ELSE stateChanged(cur.urlBefore, cur.textChanged, pg)
       IN /\ verifyThrew' = (ok /\ threw)
          /\ LoopHead(s, [a EXCEPT !.lastAction = cur.action,
                                   !.lastOutcome = Outcome(changed)])

\* the bookkeeping of a failed auto-recovery injection
recoveryFailed(a2, injected) ==
  [a2 EXCEPT !.postFillSubmitTries = @ + 1, !.lastAction = injected,
             !.lastOutcome = "unchanged"]

\* runLoop resumed after act(injectedAction) of the auto-recovery gate
RecoverAct ==
  /\ UNCHANGED <<scanVars, capVars, envVars, approval>>
  /\ UNCHANGED <<verifyThrew, recoveryAsks, startStop, planner>>
  /\ pc = "recoverAct"
  /\ UNCHANGED <<active, browser, hpc, stopHandled, completedMsgs, findingsEmitted,
                 nullRun, nullRunUrl, lastDecision, ffUrl>>
  /\ \E ok \in BrowserAlive, success \in BOOLEAN :
       IF ~(ok /\ success)
       THEN /\ pg' = pg
            /\ cur' = noLocals
            /\ actShot' = actShot
            /\ LoopHead(s, recoveryFailed(a, cur.action))
       ELSE \E after \in PagesAfterAction(cur.action, pg) :
              /\ actShot' = "due"
              /\ pg' = after.page
              /\ cur' = [cur EXCEPT !.textChanged = after.textChanged]
              /\ Goto(s, a, "recoverShot", gateTaken)

\* runLoop resumed after the ACT callback of the injected action (stability
\* wait, screenshot, rescan; a failure there is caught as a failed
\* injection) and after the post-state reads (a failure there is not caught)
RecoverShot ==
  /\ UNCHANGED <<scanVars, capVars, envVars, approval>>
  /\ UNCHANGED <<verifyThrew, recoveryAsks, startStop, planner>>
  /\ pc = "recoverShot"
  /\ UNCHANGED <<active, browser, pg, hpc, stopHandled, completedMsgs,
                 findingsEmitted, nullRun, nullRunUrl, lastDecision, ffUrl>>
  /\ cur' = noLocals
  /\ \E ok \in BrowserAlive, inCallback \in BOOLEAN :
       IF ~ok
       THEN /\ actShot' = actShot
            /\ IF inCallback THEN LoopHead(s, recoveryFailed(a, cur.action))
               ELSE Catch
       ELSE LET changed == stateChanged(cur.urlBefore, cur.textChanged, pg)
            IN /\ actShot' = "sent"
               /\ LoopHead(s, [a EXCEPT
                              !.lastAction = cur.action,
                              !.lastOutcome = Outcome(changed),
                              !.postFillSubmitTries = IF changed THEN 0 ELSE @ + 1])

\* a completion that forgets to advance
advanceStuck(planIndex) == planIndex

\* a completion that advances past the step that follows
advanceTwice(planIndex) == planIndex + 2

\* session.planIndex++ of a completed objective
advance(planIndex) == planIndex + 1

\* runAgentLoop resumed after getVisibleText of a completed objective: the
\* research note, completedSteps/planIndex, the "Objective completed"
\* status, the fast-forward loop, `continue`
CaptureNote ==
  /\ UNCHANGED <<scanVars, capVars, envVars, approval>>
  /\ UNCHANGED <<actShot, verifyThrew, recoveryAsks, startStop, planner>>
  /\ pc = "captureNote"
  /\ UNCHANGED <<active, browser, pg, hpc, cur, stopHandled, findingsEmitted,
                 nullRun, nullRunUrl, lastDecision>>
  /\ completedMsgs' = completedMsgs + 1
  /\ ffUrl' = pg.url
  /\ \E ok \in BrowserAlive :
       LET stepData == currentStep
           noteLen == Min(VisibleTextLength(pg.url), noteSliceLen)
           notes2 == IF ok /\ noteLen > noteMinLen
                     THEN Append(s.researchNotes, stepData.titleLen + 3 + noteLen)
                     ELSE s.researchNotes
           ff == FastForward(s.plan, advance(s.planIndex),
                             Append(s.completedSteps, stepData.title), pg.url)
       IN TraversalHead([s EXCEPT !.researchNotes = notes2,
                                  !.planIndex = ff.planIndex,
                                  !.completedSteps = ff.completedSteps],
                        a, TRUE, gateTaken, stepNos)

\* runAgentLoop resumed after synthesizeFindings: the RESEARCH FINDINGS log
\* and status=completed
Synthesize ==
  /\ stepNos' = sendStep(stepNos, synthesisStep(0))
  /\ UNCHANGED <<scanVars, capVars, envVars, approval>>
  /\ UNCHANGED <<actShot, verifyThrew, recoveryAsks, startStop, planner>>
  /\ pc = "synthesize"
  /\ findingsEmitted' = TRUE
  /\ dbStatus' = "completed"
  /\ lastStatus' = "completed"
  /\ pc' = "idle"
  /\ Emit
  /\ UNCHANGED <<s, active, browser, a, pg, hpc, cur, pauseKind, stopHandled,
                 completedMsgs, synthInvoked, iterFill, gateTaken, nullRun,
                 nullRunUrl, lastDecision, ffUrl>>

\* ------------------------------------------------------ message handlers
\* a rejection that leaves the pending action in the session
rejectedSessionKeepsPending(session) == [session EXCEPT !.paused = FALSE]

\* the session fields a rejected confirmation writes
rejectedSession(session) ==
  [session EXCEPT !.paused = FALSE, !.pendingAction = NoAction]

\* an approval that leaves the session marked as paused
approvedSessionStaysPaused(session) ==
  [session EXCEPT !.pendingAction = NoAction,
                  !.resume = IF session.pendingAction = NoAction THEN TRUE ELSE @]

\* the session an approved confirmation leaves before its first await:
\* pendingAction cleared, paused false and, with no action to execute,
\* resume set
approvedSession(session) ==
  [session EXCEPT !.pendingAction = NoAction, !.paused = FALSE,
                  !.resume = IF session.pendingAction = NoAction THEN TRUE ELSE @]

\* an approval that closes the browser as a rejection does
browserOnConfirmationAlwaysCloses(approved, b) == "closing"

\* what a confirmation does to the browser: a rejection issues close()
browserOnConfirmation(approved, b) == IF approved THEN b ELSE "closing"

\* 'stop' for the active session, up to the await of browser.close()
StopBegin ==
  /\ UNCHANGED stepNos
  /\ UNCHANGED <<scanVars, capVars, approval, tabs, bound, actShot,
                 verifyThrew, recoveryAsks, startStop, planner>>
  /\ msgErr' = None
  /\ active
  /\ hpc = "none"
  /\ pc # "entry"
  /\ browser' = "closing"
  /\ hpc' = "stopping"
  /\ UNCHANGED <<s, active, dbStatus, a, pg, pc, cur, lastStatus, pauseKind,
                 stopHandled, emittedAfterStop, completedMsgs, synthInvoked,
                 findingsEmitted, iterFill, gateTaken, nullRun, nullRunUrl,
                 lastDecision, ffUrl>>

\* 'stop' resumed after browser.close(): status 'stopped' in the DB, the
\* session leaves activeSessions, the stopped status is sent
StopFinish ==
  /\ UNCHANGED stepNos
  /\ UNCHANGED <<scanVars, capVars, envVars, approval>>
  /\ UNCHANGED <<actShot, verifyThrew, recoveryAsks, startStop, planner>>
  /\ hpc = "stopping"
  /\ pc # "entry"
  /\ browser' = "closed"
  /\ dbStatus' = "stopped"
  /\ active' = FALSE
  /\ lastStatus' = "stopped"
  /\ stopHandled' = TRUE
  /\ hpc' = "none"
  /\ UNCHANGED <<s, a, pg, pc, cur, pauseKind, emittedAfterStop, completedMsgs,
                 synthInvoked, findingsEmitted, iterFill, gateTaken, nullRun,
                 nullRunUrl, lastDecision, ffUrl>>

\* 'confirmation' for the paused session: a rejection stops the session, an
\* approval executes the pending action (if any) and re-enters runAgentLoop
Confirmation(approved) ==
  /\ stepNos' = IF approved THEN sendStep(stepNos, 0) ELSE stepNos
  /\ UNCHANGED <<scanVars, capVars, tabs, bound, actShot,
                 verifyThrew, recoveryAsks, startStop, planner>>
  /\ msgErr' = None
  /\ approval' = IF ~approved THEN "rejected"
                 ELSE IF s.pendingAction # NoAction THEN "action" ELSE "manual"
  /\ active
  /\ s.paused
  /\ hpc = "none"
  /\ UNCHANGED <<active, a, pg, pauseKind, stopHandled, completedMsgs, synthInvoked,
                 findingsEmitted, iterFill, gateTaken, nullRun, nullRunUrl,
                 lastDecision, ffUrl>>
  /\ Emit
  /\ browser' = browserOnConfirmation(approved, browser)
  /\ IF ~approved
     THEN /\ s' = rejectedSession(s)
          /\ dbStatus' = "stopped"
          /\ lastStatus' = "stopped"
          /\ hpc' = "rejecting"
          /\ UNCHANGED <<pc, cur>>
     ELSE /\ s' = approvedSession(s)
          /\ cur' = [noLocals EXCEPT !.action = s.pendingAction]
          /\ pc' = IF s.pendingAction = NoAction THEN "entry" ELSE "executePending"
          /\ UNCHANGED <<dbStatus, lastStatus, hpc>>

\* the rejection resumed after browser.close(): the session leaves the map
RejectFinish ==
  /\ UNCHANGED stepNos
  /\ UNCHANGED <<scanVars, capVars, envVars, approval>>
  /\ UNCHANGED <<actShot, verifyThrew, recoveryAsks, startStop, planner>>
  /\ hpc = "rejecting"
  /\ pc # "entry"
  /\ browser' = "closed"
  /\ active' = FALSE
  /\ hpc' = "none"
  /\ UNCHANGED <<s, dbStatus, a, pg, pc, cur, lastStatus, pauseKind, stopHandled,
                 emittedAfterStop, completedMsgs, synthInvoked, findingsEmitted,
                 iterFill, gateTaken, nullRun, nullRunUrl, lastDecision, ffUrl>>

\* the approval resumed after agent.executeAction(pendingAction): on success
\* resume=true and runAgentLoop is called; an exception goes to the message
\* handler's catch, which only sends an error event
ExecutePending ==
  /\ UNCHANGED stepNos
  /\ UNCHANGED <<scanVars, capVars, envVars, approval>>
  /\ UNCHANGED <<actShot, verifyThrew, recoveryAsks, startStop, planner>>
  /\ pc = "executePending"
  /\ UNCHANGED <<active, browser, dbStatus, a, hpc, lastStatus, pauseKind,
                 stopHandled, completedMsgs, synthInvoked, findingsEmitted,
                 iterFill, gateTaken, nullRun, nullRunUrl, lastDecision, ffUrl>>
  /\ cur' = noLocals
  /\ \E ok \in BrowserAlive, success \in BOOLEAN :
       IF ~(ok /\ success)
       THEN /\ pg' = pg
            /\ s' = s
            /\ pc' = "idle"
            /\ Emit
       ELSE \E after \in PagesAfterAction(cur.action, pg) :
              /\ pg' = after.page
              /\ s' = [s EXCEPT !.resume = TRUE]
              /\ pc' = "entry"
              /\ UNCHANGED emittedAfterStop

\* ------------------------------------------------------ the region scanner
\* An element of the document.  node: the identity of the DOM node; kind: what
\* the selectors and getComputedStyle see of it; parent: node of its parent
\* element (0: none modelled); href: its href attribute (0: none); agentId:
\* its data-agent-id attribute (0: none, n > 0: "element-<n>", -k: "ptr-<k-1>").
El(node, kind, parent, href) ==
  [node |-> node, kind |-> kind, parent |-> parent, href |-> href, agentId |-> 0]

\* documents a page can show when DOMTools is bound to it
pageLink == <<El(1, "a", 0, 1)>>
pagePointerDivs == <<El(1, "divPtr", 0, 0), El(2, "divPtr", 0, 0)>>
pageForm == <<El(1, "input", 0, 0), El(2, "button", 0, 0)>>
pageStyledButton == <<El(1, "buttonPtr", 0, 0), El(2, "input", 0, 0)>>
pageNested == <<El(1, "button", 0, 0), El(2, "spanRole", 1, 0)>>
pageLinks == <<El(1, "a", 0, 1), El(2, "a", 0, 2), El(3, "a", 0, 3),
               El(4, "a", 0, 4), El(5, "a", 0, 5)>>
pageEmpty == <<>>

Pages == {pageLink, pagePointerDivs, pageForm, pageStyledButton, pageNested,
          pageLinks, pageEmpty}

\* the selector of scanPage: button, [role=...], a[href], input, ...
matchesSelector(el) ==
  el.kind \in {"a", "button", "buttonPtr", "input", "spanRole"}

ElementOf(d, node) == d[CHOOSE i \in DOMAIN d : d[i].node = node]

\* getComputedStyle(el).cursor === 'pointer' (cursor is inherited)
cursorPointer(d, el) ==
  \/ el.kind \in {"a", "buttonPtr", "divPtr"}
  \/ el.kind \in {"spanRole", "div"} /\ el.parent # 0
       /\ ElementOf(d, el.parent).kind \in {"a", "buttonPtr", "divPtr"}

\* bubble-up: an inert span/div/img with an <a> or <button> ancestor is
\* replaced by that ancestor; index of the target in the document
targetIndex(d, i) ==
  IF /\ d[i].kind = "spanRole"
     /\ d[i].parent # 0
     /\ ElementOf(d, d[i].parent).kind \in {"a", "button", "buttonPtr"}
  THEN CHOOSE j \in DOMAIN d : d[j].node = d[i].parent
  ELSE i

\* regions.length < 5 starts the cursor:pointer fallback
fallbackBelow == 5

\* step 3 of scanPage: tag every selector match that passes the filters
RECURSIVE selectorPass(_, _)
selectorPass(i, acc) ==
  IF i > Len(acc.dom) THEN acc
  ELSE LET t == targetIndex(acc.dom, i)
           tgt == acc.dom[t]
       IN IF ~matchesSelector(acc.dom[i]) THEN selectorPass(i + 1, acc)
          ELSE IF tgt.href # 0 /\ tgt.href \in acc.seenHrefs
          THEN selectorPass(i + 1, acc)
          ELSE selectorPass(i + 1,
                 [acc EXCEPT !.dom[t].agentId = acc.nextId,
                             !.store = @ \cup {acc.nextId},
                             !.regions = Append(@, [id |-> acc.nextId,
                                                    node |-> tgt.node]),
                             !.seenHrefs = IF tgt.href # 0 THEN @ \cup {tgt.href}
                                                           ELSE @,
                             !.nextId = @ + 1])

\* step 6, in the page: every visible cursor:pointer element without a swept
\* ancestor gets data-agent-id = 'ptr-' + counter
RECURSIVE pointerSweep(_, _, _, _)
pointerSweep(i, d, seen, results) ==
  IF i > Len(d) \/ Len(results) >= 40 THEN [dom |-> d, results |-> results]
  ELSE IF ~cursorPointer(d, d[i]) \/ d[i].parent \in seen
  THEN pointerSweep(i + 1, d, seen, results)
  ELSE pointerSweep(i + 1, [d EXCEPT ![i].agentId = -(Len(results) + 1)],
                    seen \cup {d[i].node},
                    Append(results, [agentId |-> -(Len(results) + 1),
                                     node |-> d[i].node, href |-> d[i].href]))

\* step 6, in the scanner: re-tag each swept element with a fresh identity
\* unless its href was already registered
RECURSIVE retagPass(_, _, _)
retagPass(k, results, acc) ==
  IF k > Len(results) THEN acc
  ELSE LET pe == results[k]
           idx == {i \in DOMAIN acc.dom : acc.dom[i].agentId = pe.agentId}
           first == CHOOSE i \in idx : \A j \in idx : i <= j
       IN IF pe.href # 0 /\ pe.href \in acc.seenHrefs
          THEN retagPass(k + 1, results, acc)
          ELSE retagPass(k + 1, results,
                 [acc EXCEPT !.dom = IF idx = {} THEN @
                                     ELSE [@ EXCEPT ![first].agentId = acc.nextId],
                             !.store = @ \cup {acc.nextId},
                             !.regions = Append(@, [id |-> acc.nextId,
                                                    node |-> pe.node]),
                             !.seenHrefs = IF pe.href # 0 THEN @ \cup {pe.href}
                                                          ELSE @,
                             !.nextId = @ + 1])

\* a scan that keeps the locators of the scan before
keptStore(store) == store

\* this.elementStore.clear()
clearedStore(store) == {}

\* one pass of scanPage over document d (steps 1 to 6)
scanOnce(d, store, nid) ==
  LET untagged == [i \in DOMAIN d |-> [d[i] EXCEPT !.agentId = 0]]
      acc0 == [dom |-> untagged, store |-> clearedStore(store), regions |-> <<>>,
               seenHrefs |-> {}, nextId |-> nid]
      acc1 == selectorPass(1, acc0)
      sweep == pointerSweep(1, acc1.dom, {}, <<>>)
  IN IF Len(acc1.regions) < fallbackBelow
     THEN retagPass(1, sweep.results, [acc1 EXCEPT !.dom = sweep.dom])
     ELSE acc1

\* the elements page.locator('[data-agent-id="element-<id>"]') matches
Resolve(d, id) == {i \in DOMAIN d : d[i].agentId = id}

RegionIdsOf(rs) == {rs[i].id : i \in DOMAIN rs}

\* scanPage(false): a scan that found regions returns them; one that found
\* none on a real page waits for hydration and scans again
ScanPage ==
  /\ scanPc = "idle"
  /\ nextId <= MaxIssued
  /\ UNCHANGED orchVars
  /\ LET acc == scanOnce(dom, elementStore, nextId)
     IN /\ dom' = acc.dom
        /\ elementStore' = acc.store
        /\ nextId' = acc.nextId
        /\ retired' = 1..(nextId - 1)
        /\ lastAct' = noAct
        /\ IF Len(acc.regions) = 0
           THEN scanPc' = "spaWait" /\ UNCHANGED <<regions, inserted>>
           ELSE scanPc' = "idle" /\ regions' = acc.regions /\ inserted' = 0

\* scanPage(true), the SPA retry: returns whatever it finds
ScanRetry ==
  /\ scanPc = "spaWait"
  /\ UNCHANGED orchVars
  /\ LET acc == scanOnce(dom, elementStore, nextId)
     IN /\ dom' = acc.dom
        /\ elementStore' = acc.store
        /\ nextId' = acc.nextId
        /\ regions' = acc.regions
        /\ scanPc' = "idle"
        /\ inserted' = 0
        /\ lastAct' = noAct
        /\ UNCHANGED retired

\* the page inserts an element of its own somewhere in the document (nodes
\* are never removed, so Len(dom) + 1 is a fresh node)
InsertElement ==
  /\ inserted < MaxInserts
  /\ Len(dom) < MaxElements
  /\ UNCHANGED orchVars
  /\ \E pos \in 1..(Len(dom) + 1), kind \in {"div", "a"} :
       LET node == Len(dom) + 1
           el == El(node, kind, 0, IF kind = "a" THEN node ELSE 0)
       IN dom' = SubSeq(dom, 1, pos - 1) \o <<el>> \o SubSeq(dom, pos, Len(dom))
  /\ inserted' = inserted + 1
  /\ lastAct' = noAct
  /\ UNCHANGED <<elementStore, regions, scanPc, nextId, retired>>

RegionOps == {"cursorClick", "cursorFill", "clickByRegionId", "fillByRegionId"}

\* cursorClick, cursorFill, clickByRegionId, fillByRegionId: a missing store
\* entry throws Stale Element; otherwise the stored locator is resolved
\* against the document as it is now
RegionOp ==
  /\ scanPc = "idle"
  /\ UNCHANGED orchVars
  /\ \E op \in RegionOps, id \in 1..(nextId - 1) :
     LET m == Resolve(dom, id)
         known == {i \in DOMAIN regions : regions[i].id = id}
     IN lastAct' =
          [op |-> op, id |-> id, wasRetired |-> id \in retired,
           afterInsert |-> inserted > 0,
           expected |-> IF known = {} THEN 0
                        ELSE regions[CHOOSE i \in known : TRUE].node,
           result |-> IF id \notin elementStore THEN "stale"
                      ELSE IF Cardinality(m) = 1 THEN "applied"
                      ELSE IF m = {} THEN "timeout" ELSE "strict",
           node |-> IF id \in elementStore /\ Cardinality(m) = 1
                    THEN dom[CHOOSE i \in m : TRUE].node ELSE 0]
  /\ UNCHANGED <<dom, elementStore, regions, scanPc, nextId, retired, inserted>>

ScanInit == orchInit /\ \E d \in Pages : scanInit(d)

ScanNext ==
  \/ ScanPage
  \/ ScanRetry
  \/ InsertElement
  \/ RegionOp

ScanSpec == ScanInit /\ [][ScanNext]_vars

\* --------------------------------------------------------- the step cap
\* The agent loop with its body collapsed into one step, so that the counter
\* can run up to maxSteps.  The orchestrator around it (handleTask,
\* runAgentLoop, the confirmation handler) is the one of the actions above.

\* the plan of the session whose step counter is followed
capPlan == [steps |-> <<searchDemos, openVideo>>, needsSynthesis |-> FALSE]

\* the head of runLoop's while loop: stepCount++ and the body starts, or the
\* loop ends with 'Max steps reached'
CapLoopHead(s2, a2) ==
  IF a2.stepCount < maxSteps
  THEN /\ s' = s2
       /\ a' = [a2 EXCEPT !.stepCount = @ + 1]
       /\ bodyRuns' = [bodyRuns EXCEPT ![s2.planIndex + 1] = @ + 1]
       /\ pc' = "body"
       /\ gateTaken' = None
       /\ iterFill' = FALSE
       /\ stepNos' = onStep(stepNos)
       /\ Emit
       /\ UNCHANGED <<dbStatus, lastStatus, pauseKind, synthInvoked>>
  ELSE /\ LoopReturn(Result(FALSE, None, NoAction), s2, a2, FALSE, gateTaken)
       /\ UNCHANGED bodyRuns

\* the traversal loop body up to the first body run of agent.runLoop
CapPreNavigate ==
  /\ UNCHANGED <<scanVars, msgErr, tabs, actShot,
                 verifyThrew, recoveryAsks, startStop, planner>>
  /\ bound' = tabs
  /\ pc = "preNavigate"
  /\ approval' = None
  /\ cur' = noLocals
  /\ resumedAt' = IF s.resume THEN resumedAt \cup {s.planIndex + 1} ELSE resumedAt
  /\ UNCHANGED <<active, browser, hpc, stopHandled, completedMsgs,
                 findingsEmitted, nullRun, nullRunUrl, lastDecision, ffUrl>>
  /\ \E navOk \in BOOLEAN :
       pg' = IF currentStep.targetUrl # None /\ navOk
             THEN [url |-> currentStep.targetUrl, scrollY |-> 0]
             ELSE pg
  /\ CapLoopHead(s, IF resetStepCount(s.resume) THEN resetForObjective(a) ELSE a)

\* how one run of the body ends: `continue` or the end of the body (auto-
\* recovery, auto-scroll, a guardrail skip, a failed or verified action), the
\* decision DONE, a pause without or with a pending action
CapOutcomes == {"continue", "done", "ask", "confirm"}

\* one run of runLoop's body, from OBSERVE to where it leaves the body
CapBody(outcome) ==
  /\ UNCHANGED <<scanVars, envVars, actShot, resumedAt, approval,
                 verifyThrew, recoveryAsks, startStop, planner>>
  /\ pc = "body"
  /\ UNCHANGED <<active, browser, pg, hpc, cur, stopHandled, completedMsgs,
                 findingsEmitted, nullRun, nullRunUrl, lastDecision, ffUrl>>
  /\ CASE outcome = "continue" -> CapLoopHead(s, a)
       [] outcome = "done" ->
            /\ LoopReturn(Result(TRUE, None, NoAction), s, a, TRUE, gateTaken)
            /\ UNCHANGED bodyRuns
       [] outcome = "ask" ->
            /\ LoopReturn(Result(FALSE, "ASK_USER", NoAction), s, a, TRUE, gateTaken)
            /\ UNCHANGED bodyRuns
       [] outcome = "confirm" ->
            /\ LoopReturn(Result(FALSE, "CONFIRM",
                                 Act("VISION_CLICK", "element-3c", None)),
                          s, a, TRUE, gateTaken)
            /\ UNCHANGED bodyRuns

CapNext ==
  \/ HandleTask(capPlan.steps, capPlan.needsSynthesis)
  \/ RunAgentLoopEntry
  \/ InitialObservation
  \/ CapPreNavigate
  \/ \E outcome \in CapOutcomes : CapBody(outcome)
  \/ CaptureNote
  \/ Confirmation(TRUE)
  \/ ExecutePending

CapSpec == Init /\ [][CapNext]_vars

\* ------------------------------------------------------------ the planner
\* A task text as heuristicPlan's split leaves it: the segments between the
\* separators (then, comma, newline, '.', ';'), each TRUE when it still has
\* text after trim() and FALSE when it is blank.
PlanTasks ==
  UNION {[1..n -> BOOLEAN] : n \in 1..MaxParts}

\* a heuristic plan that keeps every part of the task
heuristicPlanUnsliced(task) ==
  LET parts == SelectSeq([i \in 1..Len(task) |-> IF task[i] THEN i ELSE 0],
                         LAMBDA x : x # 0)
      rawSteps == IF Len(parts) > 0 THEN parts ELSE <<0>>
  IN [needsSynthesis |-> FALSE,
      source |-> "heuristic",
      verifiedUrls |-> FALSE,
      steps |-> [i \in 1..Len(rawSteps) |-> [id |-> i, title |-> rawSteps[i]]]]

\* heuristicPlan(task): the non-blank parts (the whole task, title 0, when
\* there is none), the first ten of them numbered from 1; a step's title is
\* the segment it was made from
heuristicPlan(task) ==
  LET parts == SelectSeq([i \in 1..Len(task) |-> IF task[i] THEN i ELSE 0],
                         LAMBDA x : x # 0)
      rawSteps == IF Len(parts) > 0 THEN parts ELSE <<0>>
  IN [needsSynthesis |-> FALSE,
      source |-> "heuristic",
      verifiedUrls |-> FALSE,
      steps |-> [i \in 1..Min(Len(rawSteps), 10) |->
                   [id |-> i, title |-> rawSteps[i]]]]

\* validated.data: the plan of a valid LLM answer, written with or without
\* the scout's verified context in the prompt
llmPlan(scoutContext) ==
  [needsSynthesis |-> TRUE,
   source |-> "llm",
   verifiedUrls |-> scoutContext,
   steps |-> <<[id |-> 1, title |-> 1]>>]

\* how the scout phase can end: gatherContext or performScout throws, no
\* search is needed, the search finds nothing, or it returns results
ScoutOutcomes == {"threw", "noQuery", "noResults", "results"}

\* how the plan request can end: fetch or res.json() throws, the answer has
\* no text, the text has no JSON object, JSON.parse throws, the schema
\* rejects the object, or the plan is valid
RequestOutcomes == {"threw", "noText", "noJson", "badJson", "badSchema", "ok"}

plannerFrame ==
  UNCHANGED <<s, active, browser, dbStatus, a, pg, pc, hpc, cur, lastStatus,
              pauseKind, stopHandled, emittedAfterStop, completedMsgs,
              synthInvoked, findingsEmitted, iterFill, gateTaken, nullRun,
              nullRunUrl, lastDecision, ffUrl, approval, actShot, stepNos,
              verifyThrew, recoveryAsks, startStop, envVars, scanVars, capVars>>

\* planTaskWithGemini up to its first await: without a usable API key the
\* heuristic plan is returned at once
PlanStart ==
  /\ planner.stage = "idle"
  /\ \E task \in PlanTasks, hasKey \in BOOLEAN :
       planner' = IF hasKey
                  THEN [planner EXCEPT !.stage = "scout", !.task = task]
                  ELSE [planner EXCEPT !.stage = "done", !.task = task,
                                       !.failed = "key",
                                       !.result = heuristicPlan(task)]
  /\ plannerFrame

\* the scout phase: its try/catch swallows a failure and the planner goes
\* on without context
PlanScout(outcome) ==
  /\ planner.stage = "scout"
  /\ planner' = [planner EXCEPT !.stage = "request",
                                !.scoutContext = (outcome = "results"),
                                !.failed = IF outcome = "threw" THEN "scout"
                                           ELSE @]
  /\ plannerFrame

\* the plan request and the handling of its answer: every failure returns
\* the heuristic plan
PlanRequest(outcome) ==
  /\ planner.stage = "request"
  /\ planner' = IF outcome = "ok"
                THEN [planner EXCEPT !.stage = "done",
                                     !.result = llmPlan(planner.scoutContext)]
                ELSE [planner EXCEPT !.stage = "done",
                                     !.failed = outcome,
                                     !.result = heuristicPlan(planner.task)]
  /\ plannerFrame

PlanNext ==
  \/ PlanStart
  \/ \E outcome \in ScoutOutcomes : PlanScout(outcome)
  \/ \E outcome \in RequestOutcomes : PlanRequest(outcome)

PlanSpec == Init /\ [][PlanNext]_vars

\* ------------------------------------------- refused messages and new tabs
\* tabs a browser context holds at most in the model
MaxTabs == 2

\* The plan of the one task of MsgSpec
msgPlan == [steps |-> <<navYouTube>>, needsSynthesis |-> TRUE]

\* The model follows one refused message at a time: the next one is taken
\* once a message has been accepted (msgErr is None again).

\* 'confirmation' for a session that is not in activeSessions or is not
\* paused: an error event is sent and the handler returns
ConfirmationRefused ==
  /\ ~(active /\ s.paused)
  /\ msgErr = None
  /\ msgErr' = "confirmation"
  /\ UNCHANGED <<lastStatus, emittedAfterStop>>
  /\ UNCHANGED <<s, active, browser, dbStatus, a, pg, pc, hpc, cur,
                 pauseKind, stopHandled, completedMsgs,
                 synthInvoked, findingsEmitted, iterFill, gateTaken, nullRun,
                 nullRunUrl, lastDecision, ffUrl, approval, actShot, stepNos,
                 verifyThrew, recoveryAsks, startStop, planner,
                 tabs, bound, scanVars, capVars>>

\* 'task' with the id of a session that already has its row in the sessions
\* table, up to the await of the planner: the 'started' status is sent
TaskRefusedBegin ==
  /\ pc \notin {"none", "entry"}
  /\ msgErr = None
  /\ msgErr' = "taskPlanning"
  /\ lastStatus' = "started"
  /\ Emit
  /\ UNCHANGED <<s, active, browser, dbStatus, a, pg, pc, hpc, cur,
                 pauseKind, stopHandled, completedMsgs,
                 synthInvoked, findingsEmitted, iterFill, gateTaken, nullRun,
                 nullRunUrl, lastDecision, ffUrl, approval, actShot, stepNos,
                 verifyThrew, recoveryAsks, startStop, planner,
                 tabs, bound, scanVars, capVars>>

\* that handleTask resumed after the planner: a failed planning sends an
\* error event; otherwise the plan is sent as status 'running' and
\* db.createSession throws on the PRIMARY KEY of sessions.id, which the
\* message handler's catch turns into an error event.  No browser is
\* launched and runAgentLoop is not called.
TaskRefusedEnd ==
  /\ msgErr = "taskPlanning"
  /\ pc # "entry"
  /\ msgErr' = "task"
  /\ \E planned \in BOOLEAN :
       lastStatus' = IF planned THEN "running" ELSE lastStatus
  /\ Emit
  /\ UNCHANGED <<s, active, browser, dbStatus, a, pg, pc, hpc, cur,
                 pauseKind, stopHandled, completedMsgs,
                 synthInvoked, findingsEmitted, iterFill, gateTaken, nullRun,
                 nullRunUrl, lastDecision, ffUrl, approval, actShot, stepNos,
                 verifyThrew, recoveryAsks, startStop, planner,
                 tabs, bound, scanVars, capVars>>

\* the browser context opens the tab an executed click asked for (a link
\* with target=_blank, window.open)
OpenTab ==
  /\ pc \in {"verify", "recoverShot"}
  /\ cur.action.type \in {"VISION_CLICK", "DOM_CLICK"}
  /\ browser = "open"
  /\ tabs < MaxTabs
  /\ tabs' = tabs + 1
  /\ UNCHANGED <<s, active, browser, dbStatus, a, pg, pc, hpc, cur, lastStatus,
                 pauseKind, stopHandled, emittedAfterStop, completedMsgs,
                 synthInvoked, findingsEmitted, iterFill, gateTaken, nullRun,
                 nullRunUrl, lastDecision, ffUrl, approval, actShot, stepNos,
                 verifyThrew, recoveryAsks, startStop, planner,
                 msgErr, bound, scanVars, capVars>>

MsgNext ==
  \/ HandleTask(msgPlan.steps, msgPlan.needsSynthesis)
  \/ \E stage \in {"launch", "navigate"} : HandleTaskFailure(stage)
  \/ RunAgentLoopEntry
  \/ InitialObservation
  \/ PreNavigate
  \/ Observe
  \/ CheckVisibility
  \/ AutoScroll
  \/ Decide
  \/ ActStep
  \/ Verify
  \/ RecoverAct
  \/ RecoverShot
  \/ CaptureNote
  \/ Synthesize
  \/ StopBegin
  \/ StopFinish
  \/ \E approved \in BOOLEAN : Confirmation(approved)
  \/ RejectFinish
  \/ ExecutePending
  \/ ConfirmationRefused
  \/ TaskRefusedBegin
  \/ TaskRefusedEnd
  \/ OpenTab

MsgSpec == Init /\ [][MsgNext]_vars

\* ------------------------------------------- a stop before the session
\* handleTask announces the session id with status 'started' and then awaits
\* the planner, the browser launch and the first navigation; the session
\* enters activeSessions only after them.  The 'message' listener does not
\* wait for a handler to finish, so a stop for the announced id can be
\* handled in between.

\* handleTask up to the await of planTaskWithGemini: the id is announced
TaskAnnounced ==
  /\ pc = "none"
  /\ startStop = None
  /\ startStop' = "announced"
  /\ lastStatus' = "started"
  /\ Emit
  /\ UNCHANGED <<s, active, browser, dbStatus, a, pg, pc, hpc, cur,
                 pauseKind, stopHandled, completedMsgs,
                 synthInvoked, findingsEmitted, iterFill, gateTaken, nullRun,
                 nullRunUrl, lastDecision, ffUrl, approval, actShot, stepNos,
                 verifyThrew, recoveryAsks, planner,
                 msgErr, tabs, bound, scanVars, capVars>>

\* 'stop' for the announced id while handleTask is still awaiting:
\* activeSessions.get(sessionId) finds nothing and the handler does nothing
StopBeforeSession ==
  /\ pc = "none"
  /\ startStop = "announced"
  /\ ~active
  /\ startStop' = "stopped"
  /\ UNCHANGED <<s, active, browser, dbStatus, a, pg, pc, hpc, cur, lastStatus,
                 pauseKind, stopHandled, emittedAfterStop, completedMsgs,
                 synthInvoked, findingsEmitted, iterFill, gateTaken, nullRun,
                 nullRunUrl, lastDecision, ffUrl, approval, actShot, stepNos,
                 verifyThrew, recoveryAsks, planner,
                 msgErr, tabs, bound, scanVars, capVars>>

\* the announced handleTask resumed after its awaits: the rest of handleTask
HandleAnnouncedTask ==
  /\ startStop # None
  /\ HandleTask(msgPlan.steps, msgPlan.needsSynthesis)

\* the announced handleTask whose launch or first navigation throws
HandleAnnouncedTaskFailure(stage) ==
  /\ startStop # None
  /\ HandleTaskFailure(stage)

StartNext ==
  \/ TaskAnnounced
  \/ StopBeforeSession
  \/ HandleAnnouncedTask
  \/ \E stage \in {"launch", "navigate"} : HandleAnnouncedTaskFailure(stage)
  \/ RunAgentLoopEntry
  \/ InitialObservation
  \/ PreNavigate
  \/ Observe
  \/ CheckVisibility
  \/ AutoScroll
  \/ Decide
  \/ ActStep
  \/ Verify
  \/ RecoverAct
  \/ RecoverShot
  \/ CaptureNote
  \/ Synthesize
  \/ StopBegin
  \/ StopFinish
  \/ \E approved \in BOOLEAN : Confirmation(approved)
  \/ RejectFinish
  \/ ExecutePending

StartSpec == Init /\ [][StartNext]_vars

Next ==
  \/ \E planResult \in PlanResults : HandleTask(planResult.steps, planResult.needsSynthesis)
  \/ \E stage \in {"launch", "navigate"} : HandleTaskFailure(stage)
  \/ RunAgentLoopEntry
  \/ InitialObservation
  \/ PreNavigate
  \/ Observe
  \/ CheckVisibility
  \/ AutoScroll
  \/ Decide
  \/ ActStep
  \/ Verify
  \/ RecoverAct
  \/ RecoverShot
  \/ CaptureNote
  \/ Synthesize
  \/ StopBegin
  \/ StopFinish
  \/ \E approved \in BOOLEAN : Confirmation(approved)
  \/ RejectFinish
  \/ ExecutePending

Spec == Init /\ [][Next]_vars

TypeOK ==
  /\ s.planIndex \in Nat
  /\ pc \in {"none", "entry", "initialObservation", "preNavigate", "observe",
             "checkVisibility", "autoScroll", "decide", "act", "verify",
             "recoverAct", "recoverShot", "captureNote", "synthesize",
             "executePending", "idle", "startFailed"}
  /\ a.postFillSubmitTries \in 0..2
  /\ a.consecutiveFailures \in 0..2
  /\ a.scrollCount \in 0..maxAutoScrolls

\* the awaits inside AgentController.runLoop
AgentLoopPcs == {"observe", "checkVisibility", "autoScroll", "decide", "act",
                 "verify", "recoverAct", "recoverShot"}

\* ================================================================ claims

\* C1: whenever the objective at planIndex has needsAuth=true, the agent
\* loop is never run for it (the orchestrator pauses with ASK_USER instead).
C1_NeedsAuthNeverRunsAgentLoop ==
  pc \in AgentLoopPcs => ~currentStep.needsAuth

\* C2: a paused session always has a pendingAction or a
\* pausedForHumanObjective.
C2_PausedHasPendingOrHumanObjective ==
  s.paused => (s.pendingAction # NoAction \/ s.pausedForHumanObjective # None)

\* C3: once a stop message has been handled the session is out of the active
\* set and no further event of the session is sent.
C3_NoEventAfterStop ==
  stopHandled => (~active /\ ~emittedAfterStop)

\* C4: at status=completed the synthesizer has been invoked and the RESEARCH
\* FINDINGS log sent if and only if needsSynthesis holds and some accumulated
\* note is longer than 100 characters; a run that ended in a pause or an
\* error has not invoked it.
C4_SynthesisIffNeededAndMeaningful ==
  /\ lastStatus = "completed" =>
       /\ synthInvoked = findingsEmitted
       /\ synthInvoked <=>
            (s.needsSynthesis
             /\ \E i \in 1..Len(s.researchNotes) : s.researchNotes[i] > 100)
  /\ synthInvoked => s.planIndex = Len(s.plan)
  /\ (pc = "idle" /\ dbStatus \in {"paused", "error"}) => ~synthInvoked

C4_Witness ==
  /\ lastStatus = "completed"
  /\ synthInvoked
  /\ findingsEmitted
  /\ \E i \in 1..Len(s.researchNotes) : s.researchNotes[i] <= 100

\* C5: running the fast-forward loop again, against the same plan and URL,
\* right after it has run, advances planIndex by zero and appends nothing to
\* completedSteps.
C5_FastForwardIdempotent ==
  ffUrl # None =>
    FastForward(s.plan, s.planIndex, s.completedSteps, ffUrl)
      = [planIndex |-> s.planIndex, completedSteps |-> s.completedSteps]

C5_Witness ==
  /\ ffUrl # None
  /\ completedMsgs = 1
  /\ Len(s.plan) = 3
  /\ s.planIndex = 3

\* C6: for a plan of N steps at most N "Objective completed" messages are
\* sent.
C6_AtMostNObjectiveCompleted ==
  completedMsgs <= Len(s.plan)

C6_Witness ==
  /\ lastStatus = "completed"
  /\ Len(s.plan) = 2
  /\ completedMsgs = 2
  /\ s.plan[1].needsAuth

\* C7: 0 <= planIndex <= len(plan) in every reachable session state.
C7_PlanIndexInRange ==
  s.planIndex >= 0 /\ s.planIndex <= Len(s.plan)

C7_Witness ==
  /\ Len(s.plan) = 2
  /\ s.plan[2].needsAuth
  /\ s.planIndex = 2
  /\ s.completedSteps[2] = s.plan[2].title

\* C8: the agent loop returns completed=true only on a DONE decision, which
\* only sends the orchestrator on to the next plan step; status=completed is
\* sent only once planIndex equals len(plan).
C8_DoneEndsObjectiveOnly ==
  /\ pc = "captureNote" =>
       /\ lastDecision.action.type = "DONE"
       /\ s.planIndex < Len(s.plan)
       /\ lastStatus # "completed"
  /\ lastStatus = "completed" => s.planIndex = Len(s.plan)

C8_Witness ==
  /\ pc = "preNavigate"
  /\ lastDecision.action.type = "DONE"
  /\ s.planIndex = 1
  /\ Len(s.plan) = 3
  /\ lastStatus = "running"

\* C9: an iteration that starts with lastAction a fill and
\* lastOutcome.stateChanged=false injects KEY_PRESS Enter, injects a click on
\* a search/submit region or exits with the ASK_USER pause; it never reaches
\* the auto-scroll gate or the decider and never executes a fill.
C9_FillWithoutChangeRecovers ==
  iterFill =>
    /\ pc \notin {"checkVisibility", "autoScroll", "decide", "act", "verify"}
    /\ gateTaken \in {None, "recover_enter", "recover_click", "recover_ask"}
    /\ gateTaken = "recover_enter" => cur.action.type \in {"KEY_PRESS", None}
    /\ gateTaken = "recover_click" => cur.action.type \in {"VISION_CLICK", None}
    /\ gateTaken = "recover_ask" => pauseKind = "ASK_USER"
    /\ pc \in {"recoverAct", "recoverShot"} =>
         cur.action.type \notin {"VISION_FILL", "DOM_FILL"}

C9_Witness ==
  /\ iterFill
  /\ gateTaken = "recover_enter"
  /\ pc = "recoverAct"
  /\ a.lastAction.type = "DOM_FILL"
  /\ cur.action = Act("KEY_PRESS", "element-2b", "Enter")

\* C10 as stated: three fallback (null) decisions in a row within an
\* objective are SCROLL, WAIT and DONE in that order.
C10_ThreeNullsScrollWaitDone ==
  /\ nullRun = 1 => lastDecision.action.type = "SCROLL"
  /\ nullRun = 2 => lastDecision.action.type = "WAIT"
  /\ nullRun = 3 => lastDecision.action.type = "DONE"
  /\ nullRun <= 3

\* C10 as amended: three fallback (null) decisions in a row within an
\* objective, with no change of the observed URL between them, are SCROLL,
\* WAIT and DONE in that order, and the third ends the objective.
C10_ThreeNullsSameUrlScrollWaitDone ==
  /\ nullRunUrl = 1 => lastDecision.action.type = "SCROLL"
  /\ nullRunUrl = 2 => lastDecision.action.type = "WAIT"
  /\ nullRunUrl = 3 =>
       /\ lastDecision.action.type = "DONE"
       /\ pc \notin AgentLoopPcs
  /\ nullRunUrl <= 3

C10_Witness ==
  /\ nullRunUrl = 3
  /\ lastDecision.action = Act("DONE", None, None)
  /\ lastDecision.via = "fallback"
  /\ pc = "captureNote"

\* C11: once the auto-scroll gate has set bottomReached it stays set on every
\* later agent-loop iteration (across a pause and resume, across the start of
\* the next objective on the same page) until the observed URL differs from
\* the previously observed one.
C11_BottomReachedUntilUrlChange ==
  [][(a.bottomReached /\ ~a'.bottomReached) => pg'.url # a.lastUrl]_vars

\* C12: on a truly unscrollable page (scrollY = 0 and scrollHeight equal to
\* the viewport height) where the visibility check keeps answering NO, the
\* auto-scroll gate does not set bottomReached while fewer than
\* maxAutoScrolls auto-scrolls were made on that URL, and has set it once
\* the cap is exhausted and the iteration goes on to DECIDE.
C12_UnscrollableBottomOnlyAtCap ==
  (a.lastUrl \in Urls /\ ScrollHeightOf(a.lastUrl) = viewportHeight
     /\ pg.url = a.lastUrl /\ pg.scrollY = 0) =>
    /\ a.bottomReached => a.scrollCount >= maxAutoScrolls
    /\ (pc = "decide" /\ ~a.contentVisible /\ a.scrollCount >= maxAutoScrolls)
         => a.bottomReached

\* C13: after any scan, fallback included, the ids of the returned regions
\* are pairwise distinct and each id's identity-attribute selector matches
\* exactly one element of the document.
C13_IdsDistinctAndMatchOneElement ==
  (scanPc = "idle" /\ inserted = 0) =>
    /\ \A i, j \in DOMAIN regions : regions[i].id = regions[j].id => i = j
    /\ \A i \in DOMAIN regions : Cardinality(Resolve(dom, regions[i].id)) = 1

\* C14: with elements inserted between the scan and the action and no rescan
\* in between, every returned region id still resolves to the element tagged
\* at scan time, and an action on it is applied to that element.
C14_IdentitySurvivesInsertion ==
  /\ (scanPc = "idle" /\ inserted > 0) =>
       \A i \in DOMAIN regions :
         {dom[k].node : k \in Resolve(dom, regions[i].id)} = {regions[i].node}
  /\ (lastAct.afterInsert /\ lastAct.expected # 0) =>
       (lastAct.result = "applied" /\ lastAct.node = lastAct.expected)

\* C15: after every completed scan, SPA retry included, the store holds
\* exactly the ids of the regions that scan returned and no id of an earlier
\* scan; a click or fill naming such an old id fails as a stale element and
\* acts on nothing.
C15_StoreIsLastScanOnly ==
  /\ scanPc = "idle" =>
       /\ elementStore = RegionIdsOf(regions)
       /\ elementStore \cap retired = {}
  /\ lastAct.wasRetired => (lastAct.result = "stale" /\ lastAct.node = 0)

C15_Witness ==
  /\ scanPc = "idle"
  /\ retired # {}
  /\ regions # <<>>
  /\ lastAct.wasRetired
  /\ lastAct.result = "stale"
  /\ lastAct.op = "cursorClick"

\* the action names a scanned region whose label contains a keyword of
\* requireConfirmFor
targetsSensitiveRegion(action) ==
  /\ FindRegion(action.regionId) # 0
  /\ Regions[FindRegion(action.regionId)].labelSubs \cap requireConfirmFor # {}

\* the action is a fill whose value contains a secret marker
fillsSecret(action) ==
  /\ action.type \in {"VISION_FILL", "DOM_FILL"}
  /\ ValueSubs(action.value) \cap {"SECRET.", "PASSWORD", "API_KEY"} # {}

\* C16: for every action that targets a scanned region by regionId (click,
\* fill or key press) whose label contains a sensitive keyword, the guardrail
\* check returns allowed=false with requiresConfirmation=true.
C16_SensitiveRegionRequiresConfirmation ==
  targetsSensitiveRegion(lastDecision.action) =>
    /\ checkAction(lastDecision.action)
         = [allowed |-> FALSE, requiresConfirmation |-> TRUE]
    /\ ~(pc = "act" /\ cur.action = lastDecision.action)

\* C17: for every VISION_FILL or DOM_FILL whose value contains a secret
\* marker the guardrail check returns allowed=false with
\* requiresConfirmation=false and the agent loop does not execute the action.
C17_SecretFillDeniedAndSkipped ==
  fillsSecret(lastDecision.action) =>
    /\ checkAction(lastDecision.action)
         = [allowed |-> FALSE, requiresConfirmation |-> FALSE]
    /\ ~(pc \in {"act", "verify"} /\ cur.action = lastDecision.action)
    /\ s.pendingAction # lastDecision.action

\* C18: after a confirmation with approved=false for a paused session the
\* pendingAction is cleared and is not executed, status=stopped has been
\* sent and written, the browser is closed and the session has left the
\* active set once the handler has finished.
C18_RejectionStopsSession ==
  approval = "rejected" =>
    /\ s.pendingAction = NoAction
    /\ ~s.paused
    /\ lastStatus = "stopped"
    /\ dbStatus = "stopped"
    /\ pc = "idle"
    /\ cur.action = NoAction
    /\ browser \in {"closing", "closed"}
    /\ hpc \in {"rejecting", "none"}
    /\ hpc = "none" => (browser = "closed" /\ ~active)

C18_Witness ==
  /\ approval = "rejected"
  /\ hpc = "none"
  /\ ~active
  /\ browser = "closed"
  /\ pauseKind = "CONFIRM"
  /\ lastDecision.action = Act("VISION_CLICK", "element-3c", None)

\* C19: after a confirmation with approved=true for a session paused with a
\* pendingAction, the action is executed once, pendingAction is cleared and
\* the agent loop re-enters the same objective without a reset: stepCount,
\* lastAction, lastOutcome and the scroll bookkeeping are those of the pause.
C19_ApprovedActionResumesObjective ==
  [][(/\ approval = "action"
      /\ s.resume
      /\ hpc = "none"
      /\ browser = "open"
      /\ pc \in {"executePending", "entry", "initialObservation", "preNavigate"})
     =>
     /\ s.pendingAction = NoAction
     /\ s'.planIndex = s.planIndex
     /\ pc = "executePending" =>
          (pc' \in {"executePending", "entry"} /\ a' = a
             /\ (pc' = "entry" => cur.action # NoAction))
     /\ pc = "entry" => (pc' \in {"entry", "initialObservation"} /\ a' = a)
     /\ pc = "initialObservation" =>
          (pc' \in {"initialObservation", "preNavigate"} /\ a' = a)
     /\ pc = "preNavigate" =>
          \/ pc' = "preNavigate" /\ a' = a
          \/ pc' = "observe" /\ a' = [a EXCEPT !.stepCount = @ + 1]
    ]_vars

\* C20: after a confirmation with approved=true for a paused session without
\* a pendingAction, whatever caused the pause, the current objective is
\* appended to completedSteps and planIndex advances by one before the
\* traversal continues.
C20_ManualApprovalCompletesObjective ==
  [][(pc = "entry" /\ approval = "manual" /\ s.planIndex < Len(s.plan))
     =>
     /\ s'.planIndex = s.planIndex + 1
     /\ s'.completedSteps = Append(s.completedSteps, currentStep.title)
    ]_vars

\* C21: a session stays in the active set with its browser open after
\* status=completed and after status=error; only a stop message or a
\* rejected confirmation removes it and closes the browser.
C21_SessionKeptUntilStopOrRejection ==
  (/\ pc \notin {"none", "startFailed"}
   /\ hpc = "none"
   /\ ~stopHandled
   /\ approval # "rejected")
  => (active /\ browser = "open")

C21_Witness ==
  /\ pc = "idle"
  /\ dbStatus = "error"
  /\ ~stopHandled
  /\ hpc = "none"
  /\ active
  /\ browser = "open"

\* C22: when the browser launch or the initial navigation of a task fails,
\* a status event with status=error is sent, the persisted status is error
\* and the session is in the active set afterwards.
C22_StartFailureLeavesErrorSession ==
  pc = "startFailed" => (lastStatus = "error" /\ dbStatus = "error" /\ active)

\* C23: for one objective the body of the agent loop is started at most
\* maxSteps (50) times in total, pauses and resumptions of the objective
\* included, the counter of the loop equals that number, and a loop that
\* ends because the cap is reached leaves the session with status error.
C23_StepCapPerObjective ==
  /\ \A i \in DOMAIN bodyRuns : bodyRuns[i] <= maxSteps
  /\ pc = "body" => a.stepCount = bodyRuns[s.planIndex + 1]
  /\ (/\ pc = "idle"
      /\ ~s.paused
      /\ approval = None
      /\ s.planIndex < Len(s.plan)
      /\ a.stepCount = maxSteps)
     => (lastStatus = "error" /\ dbStatus = "error")

C23_Witness ==
  /\ pc = "idle"
  /\ lastStatus = "error"
  /\ s.planIndex = 1
  /\ bodyRuns[2] = maxSteps
  /\ 2 \in resumedAt

\* C28: whenever the decider's LLM request fails (no key, exception, non-OK
\* response), on any step, the decision comes from the heuristics or the
\* graduated fallback and is never an ASK_USER of the request's own making.
C28_FailedRequestFallsBack ==
  lastDecision.failed =>
    (/\ lastDecision.via \in {"heuristic", "alreadyDone", "fallback"}
     /\ lastDecision.action.type # "ASK_USER")

\* C29: with no LLM decision, a task that says 'click' and 'first link', and
\* a scan holding a region with the role link, the decider returns a
\* VISION_CLICK on the first link region.
C29_FirstLinkHeuristic ==
  (/\ lastDecision.via \notin {None, "llm"}
   /\ {"click", "first link"} \subseteq TaskSubs
   /\ firstLinkRegion # 0)
  => lastDecision.action = Act("VISION_CLICK", Regions[firstLinkRegion].id, None)

\* C30: the second auto-recovery attempt after an unchanged fill clicks the
\* button or link whose label holds a search/submit keyword when the scan
\* has one; the page-level Enter is injected only when it has none.
C30_SecondRecoveryClicksSubmit ==
  (pc = "recoverAct" /\ a.postFillSubmitTries = 1 /\ keywordButton # 0)
  => cur.action = Act("VISION_CLICK", Regions[keywordButton].id, None)

\* C24: after every action executed successfully in ACT, chosen by the
\* decider or injected by auto-recovery, a screenshot event is sent before
\* the next OBSERVE starts.
C24_ScreenshotAfterEveryAction ==
  pc = "observe" => actShot # "due"

\* C25: step rows and agent-loop logs carry strictly increasing step numbers
\* in the order they are produced, across objectives and pause/resume, and
\* no log or screenshot event carries a step number smaller than an earlier
\* one.
C25_StepNumbersIncrease ==
  ~stepNos.regressed /\ ~stepNos.rowRepeated

\* an approved confirmation has logged with the counter of the paused loop
\* and the resumed objective's loop has numbered further steps
C25_Witness ==
  /\ s.resume /\ s.planIndex > 0 /\ pc = "decide"
  /\ a.stepCount > 1
  /\ ~stepNos.regressed /\ stepNos.lead = 0

\* C26: for any interleaving of task, confirmation and stop messages at most
\* one agent loop is in progress per session: a session is paused only while
\* no loop runs, a loop is entered only from a new task, a settled loop or
\* the approved action's execution, and a confirmation refused for an
\* unknown or non-paused session leaves everything but the error event.
C26_OneLoopPerSession ==
  /\ [](s.paused => pc = "idle")
  /\ [][/\ ((pc' = "entry" /\ pc # "entry")
              => pc \in {"none", "idle", "executePending"})
         /\ ((msgErr' = "confirmation" /\ msgErr # "confirmation")
              => UNCHANGED <<s, active, browser, dbStatus, a, pg, pc, hpc, cur,
                             lastStatus, pauseKind>>)]_vars

\* a confirmation was refused while the resumed loop of an approved session
\* is deciding
C26_Witness ==
  /\ msgErr = "confirmation"
  /\ pc = "decide" /\ active /\ ~s.paused /\ s.resume

\* C27: after an executed click has opened a new tab, the next iteration of
\* the agent loop scans the newest tab, also in the middle of an objective.
C27_IterationsScanNewestTab ==
  pc \in {"checkVisibility", "decide"} => bound = tabs

\* C31: in every objective whose loop was started with resetStepCount=true
\* the escalation position postFillSubmitTries is zero at the start, so the
\* first injection after an unchanged fill is KEY_PRESS Enter on the filled
\* region, whatever earlier objectives of the session injected.
C31_EscalationStartsAtEnter ==
  /\ (pc = "observe" /\ ~s.resume /\ a.stepCount = 1)
       => a.postFillSubmitTries = 0
  /\ (pc = "recoverAct" /\ ~s.resume /\ a.stepCount = 2)
       => cur.action = Act("KEY_PRESS", a.lastAction.regionId, "Enter")

\* C32: when reading the post-action state in VERIFY throws because the
\* action's navigation destroyed the execution context, the loop goes on
\* with its next iteration and lastOutcome records stateChanged = true.
C32_DestroyedContextCountsAsChange ==
  verifyThrew => (pc = "observe" /\ a.lastOutcome = "changed")

\* C33: the planner never fails.  Without an API key, or when the plan
\* request, the JSON extraction or the schema validation fails, it returns
\* the heuristic plan: 1 to 10 steps with ids 1..n in order and
\* needsSynthesis = false.  A scout failure alone still yields the LLM plan,
\* written without verified URLs.
C33_PlannerAlwaysReturnsPlan ==
  planner.stage = "done" =>
    /\ planner.result.source # None
    /\ planner.failed \notin {None, "scout"} =>
         /\ planner.result.source = "heuristic"
         /\ ~planner.result.needsSynthesis
         /\ Len(planner.result.steps) \in 1..10
         /\ \A i \in 1..Len(planner.result.steps) :
              /\ planner.result.steps[i].id = i
              /\ i > 1 => planner.result.steps[i - 1].title
                            < planner.result.steps[i].title
    /\ planner.failed = "scout" =>
         (planner.result.source = "llm" /\ ~planner.result.verifiedUrls)

\* a task of eleven non-blank parts planned by the fallback after the plan
\* request threw: ten steps
C33_Witness ==
  /\ planner.stage = "done" /\ planner.failed = "threw"
  /\ Len(planner.task) = 11 /\ \A i \in 1..11 : planner.task[i]
  /\ Len(planner.result.steps) = 10

\* C35: after an auto-recovery ASK_USER pause is approved, the resumed loop
\* reaches DECIDE or a new injection; it does not return the same ASK_USER
\* pause again on its first iteration, so two such pauses never follow each
\* other without a decision or injection in between.
C35_ApprovedRecoveryPauseProgresses ==
  recoveryAsks <= 1

\* C36: after an approved confirmation the session either re-enters the
\* agent loop or ends with status error or stopped; a session is never left
\* in the active set with paused = false, no loop running and the persisted
\* status still 'paused'.
C36_ApprovedSessionLoopsOrEnds ==
  (active /\ hpc = "none" /\ pc = "idle" /\ ~s.paused) => dbStatus # "paused"

C38_AuthStepsCompletedByHumanOnly ==
  [][\A i \in 1..Len(s'.completedSteps) :
       (i > Len(s.completedSteps) /\ s'.plan[i].needsAuth)
       => (/\ pc = "entry"
           /\ approval = "manual"
           /\ s.pausedForHumanObjective = s.plan[i].title)
    ]_vars

\* C39: when the loop is resumed after an approval, the orchestrator does
\* not navigate again to the step's targetUrl: between the execution of the
\* approved pendingAction and the resumed loop's first OBSERVE the page is
\* the one the approved action left.
C39_ResumeKeepsPage ==
  [][(pc = "preNavigate" /\ approval = "action" /\ s.resume)
     => pg' = pg
    ]_vars

\* C40: every click executed on a scanned region whose label contains a
\* sensitive keyword was approved by the user first: neither an
\* auto-recovery injection nor a decider action that passed the guardrail
\* clicks such a region.
C40_SensitiveClicksApproved ==
  pc \in {"act", "recoverAct"}
  => \/ clickedRegion(cur.action) = 0
     \/ Regions[clickedRegion(cur.action)].labelSubs \cap requireConfirmFor = {}

\* C34: when a stop arrives for a session id already announced by
\* status=started while planning or the browser launch is still in
\* progress, the session does not run afterwards: no browser is left open
\* and no agent loop executes for that id.
C34_StoppedStartNeverRuns ==
  startStop = "stopped" => (browser # "open" /\ pc \in {"none", "startFailed"})

====
